---------------------------- MODULE Spec2Model ----------------------------
(***************************************************************************)
(* A model of the analytics core of Leetcode_Tracker                       *)
(* (src/src/data_processor.py, class DataProcessor).                       *)
(*                                                                         *)
(* Python values are modelled as follows.                                  *)
(*   - a str is a sequence of one-character strings, so that strip(),      *)
(*     title(), lower(), substring tests, comparison and strptime() are    *)
(*     computed character by character;                                    *)
(*   - a loosely typed value of a raw input dict is a tagged record        *)
(*     [type |-> "str" | "int" | "float" | "bool" | "list" | "NoneType",   *)
(*      val |-> ...]; 'attempts' stays such a value in the validated       *)
(*     records and in the Attempts cell of the Problems sheet, which       *)
(*     get_existing_problems converts with int();                          *)
(*   - a dict is a TLA+ record (a function on the keys it has), a missing  *)
(*     key is a key outside its DOMAIN;                                    *)
(*   - a call returns [kind |-> "return", value |-> v] or, when an         *)
(*     exception leaves it, [kind |-> "raise", exc |-> name].              *)
(***************************************************************************)
EXTENDS Integers, Sequences, FiniteSets, TLC

VARIABLES
    problems,       \* the list the operation is called with
    topic_mapping,  \* DataProcessor.topic_mapping: ordered <<key, value>> pairs
    today,          \* datetime.now().date(), as a proleptic Gregorian ordinal
    result,         \* what the operation returned (or raised)
    pc,             \* "call" before the operation ran, "done" after
    sheets,         \* the data rows of the Problems, Analytics and Progress sheets
    manager,        \* SyncManager.last_sync_time and SyncManager.sync_stats
    frame,          \* the locals of the operation that runs or ran last
    calls           \* the calls that operation made to its collaborators

vars == <<problems, topic_mapping, today, result, pc, sheets, manager, frame, calls>>

\* The specifications of DataProcessor alone run without a SyncManager: no
\* sheet has a row and no operation of the manager has run.
NoSheets == [Problems |-> <<>>, Analytics |-> <<>>, Progress |-> <<>>]

NoFrame ==
    [op |-> "none", n |-> 0, problems_data |-> <<>>, new_problems |-> <<>>,
     analytics_data |-> <<>>, before |-> NoSheets]

NoManager ==
    /\ sheets = NoSheets
    /\ manager = <<>>
    /\ frame = NoFrame
    /\ calls = <<>>

-----------------------------------------------------------------------------
(* Characters and the str methods the code uses.                           *)

\* The characters of the model, in code point order.
Alphabet ==
    << "\t", "\n", "\f", "\r", " ", "%", "-", "/",
       "0", "1", "2", "3", "4", "5", "6", "7", "8", "9",
       "A", "B", "C", "D", "E", "F", "G", "H", "I", "J", "K", "L", "M",
       "N", "O", "P", "Q", "R", "S", "T", "U", "V", "W", "X", "Y", "Z",
       "a", "b", "c", "d", "e", "f", "g", "h", "i", "j", "k", "l", "m",
       "n", "o", "p", "q", "r", "s", "t", "u", "v", "w", "x", "y", "z" >>

Digits == <<"0", "1", "2", "3", "4", "5", "6", "7", "8", "9">>

UpperCase ==
    << "A", "B", "C", "D", "E", "F", "G", "H", "I", "J", "K", "L", "M",
       "N", "O", "P", "Q", "R", "S", "T", "U", "V", "W", "X", "Y", "Z" >>

LowerCase ==
    << "a", "b", "c", "d", "e", "f", "g", "h", "i", "j", "k", "l", "m",
       "n", "o", "p", "q", "r", "s", "t", "u", "v", "w", "x", "y", "z" >>

Range(s) == {s[i] : i \in DOMAIN s}

IndexIn(c, s) == CHOOSE i \in DOMAIN s : s[i] = c

\* ord(c), up to an order-preserving renumbering
OrdOf == [c \in Range(Alphabet) |-> IndexIn(c, Alphabet)]

Ord(c) == OrdOf[c]

DigitSet == Range(Digits)

IsDigit(c) == c \in DigitSet

DigitValOf == [c \in Range(Digits) |-> IndexIn(c, Digits) - 1]

DigitVal(c) == DigitValOf[c]

\* The whitespace characters of the model.
Whitespace == {"\t", "\n", "\f", "\r", " "}

\* str.isspace() of one character
IsSpace(c) == c \in Whitespace

IsCased(c) == c \in Range(UpperCase) \cup Range(LowerCase)

lower_char(c) == IF c \in Range(UpperCase) THEN LowerCase[IndexIn(c, UpperCase)] ELSE c

upper_char(c) == IF c \in Range(LowerCase) THEN UpperCase[IndexIn(c, LowerCase)] ELSE c

\* str.lower()
lower(s) == [i \in DOMAIN s |-> lower_char(s[i])]

\* str.title(): a cased character is upper-cased when it follows an uncased
\* character (or starts the string) and lower-cased otherwise.
title(s) ==
    [i \in DOMAIN s |->
        IF i = 1 \/ ~IsCased(s[i - 1]) THEN upper_char(s[i]) ELSE lower_char(s[i])]

\* str.strip(): drops the leading and the trailing whitespace.
strip(s) ==
    LET keep == {i \in DOMAIN s : ~IsSpace(s[i])}
    IN  IF keep = {} THEN <<>>
        ELSE LET lo == CHOOSE i \in keep : \A j \in keep : i <= j
                 hi == CHOOSE i \in keep : \A j \in keep : j <= i
             IN  SubSeq(s, lo, hi)

\* `a in b` for two str: a occurs in b as a contiguous substring.
contains(b, a) ==
    \E i \in 1 .. (Len(b) - Len(a) + 1) : SubSeq(b, i, i + Len(a) - 1) = a

\* a < b for two str: lexicographic by code point.
str_less(a, b) ==
    \E i \in 1 .. Len(b) :
        /\ \A j \in 1 .. (i - 1) : j <= Len(a) /\ a[j] = b[j]
        /\ \/ i = Len(a) + 1
           \/ i <= Len(a) /\ Ord(a[i]) < Ord(b[i])

-----------------------------------------------------------------------------
(* Loosely typed values, and the builtins the normalizer applies to them.  *)

PyNone == [type |-> "NoneType"]
PyStr(s) == [type |-> "str", val |-> s]
PyInt(n) == [type |-> "int", val |-> n]
PyFloat(n) == [type |-> "float", val |-> n]   \* an integral float n.0
PyBool(b) == [type |-> "bool", val |-> b]
PyList(xs) == [type |-> "list", val |-> xs]

Return(v) == [kind |-> "return", value |-> v]
Raise(e) == [kind |-> "raise", exc |-> e]

\* dict.get(key, default)
Get(d, key, default) == IF key \in DOMAIN d THEN d[key] ELSE default

\* Truth value of a value (`if x`, `not x`, bool(x)).
truthy(v) ==
    CASE v.type = "NoneType" -> FALSE
      [] v.type = "str" -> Len(v.val) > 0
      [] v.type = "list" -> Len(v.val) > 0
      [] v.type = "bool" -> v.val
      [] v.type \in {"int", "float"} -> v.val # 0
      [] v.type = "dict" -> DOMAIN v.val # {}

RECURSIVE DecStr(_)
\* The decimal digits of a natural number.
DecStr(n) == IF n < 10 THEN <<Digits[n + 1]>> ELSE DecStr(n \div 10) \o <<Digits[(n % 10) + 1]>>

\* str(v), for the values the model puts into string fields (a str, None,
\* an int or a bool).
py_str(v) ==
    CASE v.type = "str" -> v.val
      [] v.type = "NoneType" -> <<"N", "o", "n", "e">>
      [] v.type = "int" -> IF v.val < 0 THEN <<"-">> \o DecStr(-v.val) ELSE DecStr(v.val)
      [] v.type = "bool" -> IF v.val THEN <<"T", "r", "u", "e">> ELSE <<"F", "a", "l", "s", "e">>

RECURSIVE DecVal(_)
\* The number a non-empty sequence of digits denotes.
DecVal(s) ==
    IF Len(s) = 1 THEN DigitVal(s[1])
    ELSE 10 * DecVal(SubSeq(s, 1, Len(s) - 1)) + DigitVal(s[Len(s)])

\* The literal grammar of int() over the model's characters: surrounding
\* whitespace, an optional "-", one or more digits.
ParseNumber(s) ==
    LET t == strip(s)
        neg == Len(t) > 0 /\ t[1] = "-"
        body == IF neg THEN SubSeq(t, 2, Len(t)) ELSE t
    IN  IF Len(body) > 0 /\ \A i \in DOMAIN body : IsDigit(body[i])
        THEN Return(IF neg THEN -DecVal(body) ELSE DecVal(body))
        ELSE Raise("ValueError")

\* The floats that are not written as an integer: the infinities, nan (one
\* value here, although nan == nan is False in Python), and the float
\* nearest to the decimal number digits * 10^exp, ties to even, where
\* `digits` has no leading and no trailing zero.
Inf == [float |-> "inf"]
NegInf == [float |-> "-inf"]
NaN == [float |-> "nan"]
Nearest(neg, digits, exp) == [float |-> "nearest", neg |-> neg, digits |-> digits, exp |-> exp]

S_inf == <<"i", "n", "f">>
S_infinity == <<"i", "n", "f", "i", "n", "i", "t", "y">>
S_nan == <<"n", "a", "n">>

RECURSIVE LeadingZeros(_)
\* The number of "0" a sequence of digits starts with.
LeadingZeros(s) == IF s # <<>> /\ Head(s) = "0" THEN 1 + LeadingZeros(Tail(s)) ELSE 0

RECURSIVE TrailingZeros(_)
\* The number of "0" a sequence of digits ends with.
TrailingZeros(s) ==
    IF s # <<>> /\ s[Len(s)] = "0" THEN 1 + TrailingZeros(SubSeq(s, 1, Len(s) - 1)) ELSE 0

RECURSIVE Pow10(_)
Pow10(k) == IF k = 0 THEN 1 ELSE 10 * Pow10(k - 1)

\* The longest decimal written as an integer; the magnitudes, as numbers of
\* digits before the point, above which every decimal rounds to an infinity
\* (the largest float is below 10^309) and below the negative of which
\* every decimal rounds to zero (half the smallest float is above 10^-324);
\* and the value an exponent of more digits than ExponentDigits is cut to,
\* which is far beyond both.
IntegerDigits == 9
MaxMagnitude == 309
MinMagnitude == 323
ExponentDigits == 6
HugeExponent == 1000000

\* The number the digits of an exponent denote.
ExpVal(s) ==
    LET d == SubSeq(s, LeadingZeros(s) + 1, Len(s))
    IN  IF d = <<>> THEN 0
        ELSE IF Len(d) > ExponentDigits THEN HugeExponent
        ELSE DecVal(d)

\* The float of the decimal number digits * 10^exp, negated when neg,
\* `digits` having no leading and no trailing zero: an integer of up to
\* IntegerDigits digits is the float of that value, a decimal beyond the
\* range of the floats is an infinity, one below it is zero, and any other
\* decimal is rounded to the nearest float (which is an infinity for a
\* decimal of magnitude MaxMagnitude from 2^1024 - 2^970 on, and zero for
\* one of magnitude -MinMagnitude up to 2^-1075).
RoundDecimal(neg, digits, exp) ==
    IF exp >= 0 /\ Len(digits) + exp <= IntegerDigits
    THEN (IF neg THEN -1 ELSE 1) * DecVal(digits) * Pow10(exp)
    ELSE IF Len(digits) + exp > MaxMagnitude THEN (IF neg THEN NegInf ELSE Inf)
    ELSE IF Len(digits) + exp < -MinMagnitude THEN 0
    ELSE Nearest(neg, digits, exp)

\* The float of d * 10^exp for digits d without a leading zero: zero for no
\* digits (-0.0 is 0), else the trailing zeros go into the exponent.
TrimDecimal(neg, d, exp) ==
    IF d = <<>> THEN 0
    ELSE RoundDecimal(neg, SubSeq(d, 1, Len(d) - TrailingZeros(d)), exp + TrailingZeros(d))

\* The float of the decimal number mant * 10^exp, negated when neg.
FloatOfDecimal(neg, mant, exp) ==
    TrimDecimal(neg, SubSeq(mant, LeadingZeros(mant) + 1, Len(mant)), exp)

\* One or more digits.
AllDigits(x) == Len(x) > 0 /\ \A i \in DOMAIN x : IsDigit(x[i])

\* The exponent of a literal: an optional "-", one or more digits.
ParseExponent(rest) ==
    IF Len(rest) > 0 /\ rest[1] = "-"
    THEN IF AllDigits(Tail(rest)) THEN Return(-ExpVal(Tail(rest))) ELSE Raise("ValueError")
    ELSE IF AllDigits(rest) THEN Return(ExpVal(rest)) ELSE Raise("ValueError")

\* A literal with "e" or "E" at position i: digits, the mark, the exponent.
ParseScientific(neg, body, i) ==
    IF AllDigits(SubSeq(body, 1, i - 1))
       /\ ParseExponent(SubSeq(body, i + 1, Len(body))).kind = "return"
    THEN Return(FloatOfDecimal(neg, SubSeq(body, 1, i - 1),
                               ParseExponent(SubSeq(body, i + 1, Len(body))).value))
    ELSE Raise("ValueError")

\* The literal after its sign: "inf", "infinity" or "nan" in any case, or
\* one or more digits with an optional exponent.
ParseUnsigned(neg, body) ==
    IF lower(body) \in {S_inf, S_infinity} THEN Return(IF neg THEN NegInf ELSE Inf)
    ELSE IF lower(body) = S_nan THEN Return(NaN)
    ELSE IF AllDigits(body) THEN Return(FloatOfDecimal(neg, body, 0))
    ELSE IF \E i \in DOMAIN body : body[i] \in {"e", "E"}
         THEN ParseScientific(neg, body,
                CHOOSE i \in DOMAIN body :
                    body[i] \in {"e", "E"} /\ \A j \in 1 .. (i - 1) : body[j] \notin {"e", "E"})
    ELSE Raise("ValueError")

\* The literal without the surrounding whitespace: an optional "-", then
\* the rest.
ParseSigned(t) ==
    IF Len(t) > 0 /\ t[1] = "-" THEN ParseUnsigned(TRUE, Tail(t)) ELSE ParseUnsigned(FALSE, t)

\* The literal grammar of float() over the model's characters (which have
\* no ".", "+" or "_"): surrounding whitespace, an optional "-", then
\* "inf", "infinity" or "nan" in any case, or one or more digits with an
\* optional exponent: "e" or "E", an optional "-", one or more digits.
ParseFloat(s) == ParseSigned(strip(s))

\* float(v)
py_float(v) ==
    CASE v.type \in {"NoneType", "list", "dict"} -> Raise("TypeError")
      [] v.type \in {"int", "float"} -> Return(v.val)
      [] v.type = "bool" -> Return(IF v.val THEN 1 ELSE 0)
      [] v.type = "str" -> ParseFloat(v.val)

\* int(v)
py_int(v) ==
    CASE v.type \in {"NoneType", "list", "dict"} -> Raise("TypeError")
      [] v.type \in {"int", "float"} -> Return(v.val)
      [] v.type = "bool" -> Return(IF v.val THEN 1 ELSE 0)
      [] v.type = "str" -> ParseNumber(v.val)

\* iter(v): the elements a comprehension `for x in v` visits.
py_iter(v) ==
    CASE v.type = "list" -> Return(v.val)
      [] v.type = "str" -> Return([i \in DOMAIN v.val |-> PyStr(<<v.val[i]>>)])
      [] OTHER -> Raise("TypeError")

-----------------------------------------------------------------------------
(* The calendar, and datetime.strptime(s, '%Y-%m-%d').                     *)

IsLeap(y) == (y % 4 = 0) /\ ((y % 100 # 0) \/ (y % 400 = 0))

DaysInMonth(y, m) ==
    CASE m \in {1, 3, 5, 7, 8, 10, 12} -> 31
      [] m \in {4, 6, 9, 11} -> 30
      [] m = 2 -> IF IsLeap(y) THEN 29 ELSE 28

IsValidDate(y, m, d) ==
    /\ y \in 1 .. 9999
    /\ m \in 1 .. 12
    /\ d \in 1 .. DaysInMonth(y, m)

RECURSIVE DaysBeforeMonth(_, _)
DaysBeforeMonth(y, m) == IF m = 1 THEN 0 ELSE DaysBeforeMonth(y, m - 1) + DaysInMonth(y, m - 1)

\* date.toordinal(): 0001-01-01 is day 1. The difference of two dates in
\* days is the difference of their ordinals.
ToOrdinal(y, m, d) ==
    LET p == y - 1
    IN  p * 365 + (p \div 4) - (p \div 100) + (p \div 400) + DaysBeforeMonth(y, m) + d

\* The regular expression strptime builds for '%Y-%m-%d' is
\*   (\d\d\d\d)-(1[0-2]|0[1-9]|[1-9])-(3[01]|[12]\d|0[1-9]|[1-9]| [1-9])
\* matched at the start of s; the alternatives are tried in this order, the
\* whole of s must be consumed and the fields must name a calendar date.
strptime(s) ==
    LET n == Len(s)
        at(i) == IF i <= n THEN s[i] ELSE ""
        nz(c) == IsDigit(c) /\ c # "0"
        mlen == CASE at(6) = "1" /\ at(7) \in {"0", "1", "2"} -> 2
                  [] at(6) = "0" /\ nz(at(7)) -> 2
                  [] nz(at(6)) -> 1
                  [] OTHER -> 0
        p == 6 + mlen       \* where the second "-" must stand
        q == p + 1          \* where the day starts
        dlen == CASE at(q) = "3" /\ at(q + 1) \in {"0", "1"} -> 2
                  [] at(q) \in {"1", "2"} /\ IsDigit(at(q + 1)) -> 2
                  [] at(q) = "0" /\ nz(at(q + 1)) -> 2
                  [] nz(at(q)) -> 1
                  [] at(q) = " " /\ nz(at(q + 1)) -> 2
                  [] OTHER -> 0
        matched == /\ n >= 5
                   /\ \A i \in 1 .. 4 : IsDigit(s[i])
                   /\ s[5] = "-"
                   /\ mlen > 0
                   /\ at(p) = "-"
                   /\ dlen > 0
                   /\ n = q + dlen - 1
        year == DecVal(SubSeq(s, 1, 4))
        month == DecVal(SubSeq(s, 6, 5 + mlen))
        day == IF at(q) = " " THEN DigitVal(at(q + 1)) ELSE DecVal(SubSeq(s, q, q + dlen - 1))
    IN  IF matched /\ IsValidDate(year, month, day)
        THEN Return([year |-> year, month |-> month, day |-> day])
        ELSE Raise("ValueError")

-----------------------------------------------------------------------------
(* String literals of the source.                                          *)

S_Solved == <<"S", "o", "l", "v", "e", "d">>
S_Unknown == <<"U", "n", "k", "n", "o", "w", "n">>
S_easy == <<"e", "a", "s", "y">>
S_medium == <<"m", "e", "d", "i", "u", "m">>
S_hard == <<"h", "a", "r", "d">>
S_Easy == <<"E", "a", "s", "y">>
S_Medium == <<"M", "e", "d", "i", "u", "m">>
S_Hard == <<"H", "a", "r", "d">>

-----------------------------------------------------------------------------
(* DataProcessor.validate_problem_data                                     *)

\* str(problem.get(key, default)).strip()
StrField(problem, key, default) == strip(py_str(Get(problem, key, PyStr(default))))

RECURSIVE CleanItems(_)
\* [str(x).strip() for x in items if x]
CleanItems(items) ==
    IF items = <<>> THEN <<>>
    ELSE IF truthy(Head(items))
         THEN <<strip(py_str(Head(items)))>> \o CleanItems(Tail(items))
         ELSE CleanItems(Tail(items))

\* [str(x).strip() for x in problem.get(key, []) if x]
ListField(problem, key) ==
    LET it == py_iter(Get(problem, key, PyList(<<>>)))
    IN  IF it.kind = "raise" THEN it ELSE Return(CleanItems(it.value))

KnownDifficulties == {S_easy, S_medium, S_hard}

\* The dict literal cleaned_problem: its entries are evaluated in the order
\* written, so the first conversion that raises decides the exception.
\* 'attempts' keeps the tag of its type, as in every record that goes to
\* the Problems sheet: update_problems_sheet writes the value into a cell as
\* it is, and get_existing_problems converts the cell with int().
CleanedProblem(problem) ==
    LET topics == ListField(problem, "topics")
        companies == ListField(problem, "companies")
        acceptance_rate == py_float(Get(problem, "acceptance_rate", PyInt(0)))
        attempts == py_int(Get(problem, "attempts", PyInt(1)))
    IN  IF topics.kind = "raise" THEN topics
        ELSE IF companies.kind = "raise" THEN companies
        ELSE IF acceptance_rate.kind = "raise" THEN acceptance_rate
        ELSE IF attempts.kind = "raise" THEN attempts
        ELSE Return(
            [title |-> StrField(problem, "title", <<>>),
             problem_id |-> StrField(problem, "problem_id", <<>>),
             title_slug |-> StrField(problem, "title_slug", <<>>),
             difficulty |-> title(StrField(problem, "difficulty", <<>>)),
             topics |-> topics.value,
             companies |-> companies.value,
             date_solved |-> StrField(problem, "date_solved", <<>>),
             language |-> StrField(problem, "language", <<>>),
             runtime |-> StrField(problem, "runtime", <<>>),
             memory |-> StrField(problem, "memory", <<>>),
             submission_id |-> StrField(problem, "submission_id", <<>>),
             is_paid_only |-> truthy(Get(problem, "is_paid_only", PyBool(FALSE))),
             category |-> StrField(problem, "category", <<>>),
             acceptance_rate |-> acceptance_rate.value,
             attempts |-> PyInt(attempts.value),
             status |-> StrField(problem, "status", S_Solved)])

\* ValidateDifficulty with the test made on the Title Case value itself,
\* without .lower().
ValidateDifficulty_CaseSensitive(cleaned) ==
    IF cleaned.difficulty \notin KnownDifficulties
    THEN [cleaned EXCEPT !.difficulty = S_Unknown]
    ELSE cleaned

\* "Validate difficulty": anything but easy/medium/hard becomes Unknown.
ValidateDifficulty(cleaned) ==
    IF lower(cleaned.difficulty) \notin KnownDifficulties
    THEN [cleaned EXCEPT !.difficulty = S_Unknown]
    ELSE cleaned

\* "Validate date format": a non-empty date strptime rejects is cleared.
ValidateDate(cleaned) ==
    IF cleaned.date_solved # <<>> /\ strptime(cleaned.date_solved).kind = "raise"
    THEN [cleaned EXCEPT !.date_solved = <<>>]
    ELSE cleaned

\* "Basic validation": the record is skipped when `not problem.get('title')`.
HasTitle(problem) == truthy(Get(problem, "title", PyNone))

RECURSIVE ValidateFrom(_, _)
\* The loop of validate_problem_data over the rest of the list, with the
\* records validated so far; an exception ends the call.
ValidateFrom(rest, validated_problems) ==
    IF rest = <<>> THEN Return(validated_problems)
    ELSE IF ~HasTitle(Head(rest)) THEN ValidateFrom(Tail(rest), validated_problems)
    ELSE LET cleaned == CleanedProblem(Head(rest))
         IN  IF cleaned.kind = "raise" THEN cleaned
             ELSE ValidateFrom(Tail(rest),
                     Append(validated_problems,
                            ValidateDate(ValidateDifficulty(cleaned.value))))

validate_problem_data(ps) == ValidateFrom(ps, <<>>)

-----------------------------------------------------------------------------
(* DataProcessor._calculate_streaks                                        *)

\* A str field of a normalized record is the character sequence itself, and
\* a field the record lacks reads as the default of .get().
Max(a, b) == IF a >= b THEN a ELSE b

RECURSIVE DateStrings(_)
\* [p.get('date_solved', '') for p in problems if p.get('date_solved')]
DateStrings(ps) ==
    IF ps = <<>> THEN <<>>
    ELSE LET d == Get(Head(ps), "date_solved", <<>>)
         IN  IF d # <<>> THEN <<d>> \o DateStrings(Tail(ps)) ELSE DateStrings(Tail(ps))

RECURSIVE DateObjects(_)
\* The dates strptime accepts, as ordinals; a ValueError skips the string.
DateObjects(dates) ==
    IF dates = <<>> THEN <<>>
    ELSE LET r == strptime(Head(dates))
         IN  IF r.kind = "raise" THEN DateObjects(Tail(dates))
             ELSE <<ToOrdinal(r.value.year, r.value.month, r.value.day)>>
                  \o DateObjects(Tail(dates))

RECURSIVE StreakLoop(_, _, _, _)
\* The loop over the sorted date_objects from index i on; s holds
\* current_streak, longest_streak and temp_streak.
StreakLoop(date_objects, i, s, now) ==
    IF i > Len(date_objects) THEN s
    ELSE LET consecutive == date_objects[i] - date_objects[i - 1] = 1
             temp == IF i = 1 THEN 1
                     ELSE IF consecutive THEN s.temp_streak + 1
                     ELSE 1
             longest == IF i > 1 /\ ~consecutive
                        THEN Max(s.longest_streak, s.temp_streak)
                        ELSE s.longest_streak
             current == IF now - date_objects[i] <= 1 THEN temp ELSE s.current_streak
         IN  StreakLoop(date_objects, i + 1,
                        [current_streak |-> current, longest_streak |-> longest,
                         temp_streak |-> temp], now)

\* _calculate_streaks without the final `longest_streak = max(longest_streak,
\* temp_streak)`: the run that is still open at the end is not counted.
StreakResult_NoFinalMax(s) == <<s.current_streak, s.longest_streak>>

\* The tuple returned after the loop.
StreakResult(s) == <<s.current_streak, Max(s.longest_streak, s.temp_streak)>>

\* The body of _calculate_streaks when datetime.now().date() is `now`.
StreaksAt(ps, now) ==
    LET date_objects == SortSeq(DateObjects(DateStrings(ps)), LAMBDA a, b : a < b)
    IN  IF date_objects = <<>> THEN <<0, 0>>
        ELSE StreakResult(StreakLoop(date_objects, 1,
                [current_streak |-> 0, longest_streak |-> 0, temp_streak |-> 0], now))

\* _calculate_streaks(problems) -> (current_streak, longest_streak)
_calculate_streaks(ps) == StreaksAt(ps, today)

-----------------------------------------------------------------------------
(* DataProcessor._map_topics and DataProcessor.categorize_by_topic         *)

\* The partial match of _map_topics: either name occurs in the other,
\* letter case ignored.
PartialMatch(key, topic) ==
    \/ contains(lower(topic), lower(key))
    \/ contains(lower(key), lower(topic))

RECURSIVE FirstPartial(_, _, _)
\* `for key, value in mapping.items(): if <partial match>: ...; break`, with
\* the `else` of the loop keeping the topic.
FirstPartial(mapping, i, topic) ==
    IF i > Len(mapping) THEN topic
    ELSE IF PartialMatch(mapping[i][1], topic) THEN mapping[i][2]
    ELSE FirstPartial(mapping, i + 1, topic)

\* MapTopic without the direct lookup: every topic goes through the partial
\* matches.
MapTopic_NoDirect(mapping, topic) == FirstPartial(mapping, 1, topic)

\* The category one topic is mapped to: the direct mapping if the topic is
\* a key, else the first partial match, else the topic itself.
MapTopic(mapping, topic) ==
    IF \E i \in DOMAIN mapping : mapping[i][1] = topic
    THEN mapping[CHOOSE i \in DOMAIN mapping : mapping[i][1] = topic][2]
    ELSE FirstPartial(mapping, 1, topic)

\* list(s) for a set s: the order Python lists a set of str in changes with
\* the hash seed of the process, so every order of the elements is a list
\* the call can return.
ListsOf(s) ==
    {l \in [1 .. Cardinality(s) -> s] : \A i, j \in DOMAIN l : i # j => l[i] # l[j]}

\* The body of _map_topics for a given self.topic_mapping: the lists the
\* call can return. Without a mapping it is the list of topics itself.
MapTopicsWith(mapping, topics) ==
    IF mapping = <<>> THEN {topics}
    ELSE ListsOf({MapTopic(mapping, topics[i]) : i \in DOMAIN topics})

\* _map_topics(topics): the lists the call can return.
_map_topics(topics) == MapTopicsWith(topic_mapping, topics)

\* The entry the defaultdict creates for a new topic (without the list of
\* problems, which the result drops).
NewTopicStat ==
    [total |-> 0, solved |-> 0, easy |-> 0, medium |-> 0, hard |-> 0, last_solved |-> <<>>]

\* The update of one topic's entry that counts `solved` only for a record
\* that has a date.
CountProblem_SolvedIfDated(stat, difficulty, date_solved) ==
    [total |-> stat.total + 1,
     solved |-> IF date_solved # <<>> THEN stat.solved + 1 ELSE stat.solved,
     easy |-> IF difficulty = S_easy THEN stat.easy + 1 ELSE stat.easy,
     medium |-> IF difficulty = S_medium THEN stat.medium + 1 ELSE stat.medium,
     hard |-> IF difficulty = S_hard THEN stat.hard + 1 ELSE stat.hard,
     last_solved |->
        IF date_solved # <<>>
           /\ (stat.last_solved = <<>> \/ str_less(stat.last_solved, date_solved))
        THEN date_solved
        ELSE stat.last_solved]

\* The update of one topic's entry for one problem (the body of
\* `for topic in mapped_topics`).
CountProblem(stat, difficulty, date_solved) ==
    [total |-> stat.total + 1,
     solved |-> stat.solved + 1,
     easy |-> IF difficulty = S_easy THEN stat.easy + 1 ELSE stat.easy,
     medium |-> IF difficulty = S_medium THEN stat.medium + 1 ELSE stat.medium,
     hard |-> IF difficulty = S_hard THEN stat.hard + 1 ELSE stat.hard,
     last_solved |->
        IF date_solved # <<>>
           /\ (stat.last_solved = <<>> \/ str_less(stat.last_solved, date_solved))
        THEN date_solved
        ELSE stat.last_solved]

RECURSIVE CountTopics(_, _, _, _)
\* `for topic in mapped_topics` for one problem.
CountTopics(topic_stats, mapped_topics, difficulty, date_solved) ==
    IF mapped_topics = <<>> THEN topic_stats
    ELSE LET topic == Head(mapped_topics)
             old == IF topic \in DOMAIN topic_stats THEN topic_stats[topic] ELSE NewTopicStat
             new == CountProblem(old, difficulty, date_solved)
         IN  CountTopics([x \in DOMAIN topic_stats \cup {topic} |->
                            IF x = topic THEN new ELSE topic_stats[x]],
                         Tail(mapped_topics), difficulty, date_solved)

RECURSIVE CategorizeFrom(_, _, _)
\* `for problem in problems` of categorize_by_topic. The entries of
\* different topics are updated independently of each other and the result
\* is a function on the topics, so every order of mapped_topics gives the
\* same result.
CategorizeFrom(mapping, rest, topic_stats) ==
    IF rest = <<>> THEN topic_stats
    ELSE LET problem == Head(rest)
             topics == Get(problem, "topics", <<>>)
             difficulty == lower(Get(problem, "difficulty", <<>>))
             date_solved == Get(problem, "date_solved", <<>>)
         IN  CategorizeFrom(mapping, Tail(rest),
                CountTopics(topic_stats,
                            CHOOSE mapped_topics \in MapTopicsWith(mapping, topics) : TRUE,
                            difficulty, date_solved))

\* The body of categorize_by_topic for a given self.topic_mapping.
CategorizeWith(mapping, ps) == CategorizeFrom(mapping, ps, <<>>)

\* categorize_by_topic(problems): topic -> {total, solved, easy, medium,
\* hard, last_solved}. A dict is a function on its keys.
categorize_by_topic(ps) == CategorizeWith(topic_mapping, ps)

-----------------------------------------------------------------------------
(* DataProcessor.calculate_progress_metrics and generate_analytics         *)

\* The digits of n, zero-padded to the given width.
Pad(n, width) ==
    LET s == DecStr(n)
    IN  [i \in 1 .. (width - Len(s)) |-> "0"] \o s

\* strftime('%Y-%m-%d') of a date, as the C library of Linux prints it: the
\* month and the day are zero-padded to two digits, the year is printed
\* without padding, so a year below 1000 has fewer than four digits.
FormatDate(y, m, d) == DecStr(y) \o <<"-">> \o Pad(m, 2) \o <<"-">> \o Pad(d, 2)

\* date.fromordinal(n)
FromOrdinal(n) ==
    LET y == CHOOSE y \in (n \div 366) .. (n \div 365 + 1) :
                ToOrdinal(y, 1, 1) <= n /\ n < ToOrdinal(y + 1, 1, 1)
        m == CHOOSE m \in 1 .. 12 :
                ToOrdinal(y, m, 1) <= n /\ n < ToOrdinal(y, m, 1) + DaysInMonth(y, m)
    IN  [year |-> y, month |-> m, day |-> n - ToOrdinal(y, m, 1) + 1]

\* date.weekday(): Monday is 0, Sunday is 6.
Weekday(n) == (n - 1) % 7

\* _get_week_start with the week starting on Sunday: the days since the
\* start of the week are (weekday() + 1) % 7.
_get_week_start_FromSunday(date_str) ==
    LET r == strptime(date_str)
    IN  IF r.kind = "raise" THEN date_str
        ELSE LET n == ToOrdinal(r.value.year, r.value.month, r.value.day)
                 w == FromOrdinal(n - ((Weekday(n) + 1) % 7))
             IN  FormatDate(w.year, w.month, w.day)

\* _get_week_start(date_str): the Monday of the date's week, the string
\* itself when strptime rejects it.
_get_week_start(date_str) ==
    LET r == strptime(date_str)
    IN  IF r.kind = "raise" THEN date_str
        ELSE LET n == ToOrdinal(r.value.year, r.value.month, r.value.day)
                 w == FromOrdinal(n - Weekday(n))
             IN  FormatDate(w.year, w.month, w.day)

\* _get_month_start(date_str): the first day of the date's month, the string
\* itself when strptime rejects it.
_get_month_start(date_str) ==
    LET r == strptime(date_str)
    IN  IF r.kind = "raise" THEN date_str
        ELSE FormatDate(r.value.year, r.value.month, 1)

RECURSIVE SortedStrings(_)
\* sorted(s) for a set of str
SortedStrings(s) ==
    IF s = {} THEN <<>>
    ELSE LET least == CHOOSE x \in s : \A y \in s : y = x \/ str_less(x, y)
         IN  <<least>> \o SortedStrings(s \ {least})

RECURSIVE SumCounts(_, _)
\* sum(daily_counts[d] for d in dates)
SumCounts(daily_counts, dates) ==
    IF dates = {} THEN 0
    ELSE LET d == CHOOSE d \in dates : TRUE
         IN  daily_counts[d] + SumCounts(daily_counts, dates \ {d})

RECURSIVE ProgressEntries(_, _, _, _, _, _)
\* `for date in sorted(daily_counts.keys())`, from the i-th date on;
\* week_start and month_start hold _get_week_start(d) and
\* _get_month_start(d) for every date d of daily_counts.
ProgressEntries(daily_counts, week_start, month_start, dates, i, total_solved) ==
    IF i > Len(dates) THEN <<>>
    ELSE << [date |-> dates[i],
             daily_count |-> daily_counts[dates[i]],
             weekly_count |-> SumCounts(daily_counts, {d \in DOMAIN daily_counts :
                                week_start[d] = week_start[dates[i]]}),
             monthly_count |-> SumCounts(daily_counts, {d \in DOMAIN daily_counts :
                                month_start[d] = month_start[dates[i]]}),
             total_solved |-> total_solved + daily_counts[dates[i]],
             streak |-> 0] >>
         \o ProgressEntries(daily_counts, week_start, month_start, dates, i + 1,
                            total_solved + daily_counts[dates[i]])

\* DailyCounts with `daily_counts[date] = 1` in place of `+= 1`.
DailyCounts_OnePerDate(dates) == [d \in Range(dates) |-> 1]

\* daily_counts: the number of records of each date.
DailyCounts(dates) ==
    [d \in Range(dates) |-> Cardinality({i \in DOMAIN dates : dates[i] = d})]

\* The entries for the dates of the records, in ascending order of the date
\* strings.
DailyProgressOf(dates) ==
    ProgressEntries(DailyCounts(dates),
                    [d \in Range(dates) |-> _get_week_start(d)],
                    [d \in Range(dates) |-> _get_month_start(d)],
                    SortedStrings(Range(dates)), 1, 0)

\* _calculate_daily_progress(problems)
_calculate_daily_progress(ps) == DailyProgressOf(DateStrings(ps))

RECURSIVE InsertByDate(_, _)
\* One step of the stable sort by date_solved: x goes behind every record
\* whose date is not greater than its own.
InsertByDate(sorted, x) ==
    IF sorted = <<>> THEN <<x>>
    ELSE IF str_less(Get(x, "date_solved", <<>>), Get(Head(sorted), "date_solved", <<>>))
         THEN <<x>> \o sorted
         ELSE <<Head(sorted)>> \o InsertByDate(Tail(sorted), x)

RECURSIVE SortedByDate(_)
\* sorted([p for p in problems if p.get('date_solved')], key=date_solved)
SortedByDate(ps) ==
    IF ps = <<>> THEN <<>>
    ELSE LET front == SortedByDate(SubSeq(ps, 1, Len(ps) - 1))
             last == ps[Len(ps)]
         IN  IF Get(last, "date_solved", <<>>) # <<>> THEN InsertByDate(front, last)
             ELSE front

\* The dict calculate_progress_metrics returns, as far as generate_analytics
\* reads it: 'daily_progress', 'current_streak' and 'longest_streak'.
MetricsDict(ps, sorted_problems, streaks) ==
    [total_problems |-> Len(ps),
     total_solved |-> Len(sorted_problems),
     current_streak |-> streaks[1],
     longest_streak |-> streaks[2],
     daily_progress |-> _calculate_daily_progress(sorted_problems)]

\* calculate_progress_metrics from sorted_problems on.
MetricsOfSorted(ps, sorted_problems, now) ==
    MetricsDict(ps, sorted_problems, StreaksAt(sorted_problems, now))

\* The body of calculate_progress_metrics when the clock shows `now`; an
\* empty dict for an empty list.
ProgressMetricsAt(ps, now) ==
    IF ps = <<>> THEN <<>> ELSE MetricsOfSorted(ps, SortedByDate(ps), now)

\* calculate_progress_metrics(problems)
calculate_progress_metrics(ps) == ProgressMetricsAt(ps, today)

\* analytics_data of generate_analytics. last_updated is the date of the
\* clock, the time of day is not modelled.
AnalyticsData(topic_analytics, progress_metrics, ps, now) ==
    [topic_analytics |-> topic_analytics,
     progress_data |-> Get(progress_metrics, "daily_progress", <<>>),
     summary_stats |->
        [total_problems |-> Len(ps),
         total_solved |-> Len(DateStrings(ps)),
         current_streak |-> Get(progress_metrics, "current_streak", 0),
         longest_streak |-> Get(progress_metrics, "longest_streak", 0),
         last_updated |-> now]]

\* The body of generate_analytics for a given self.topic_mapping and clock.
AnalyticsWith(mapping, ps, now) ==
    AnalyticsData(CategorizeWith(mapping, ps), ProgressMetricsAt(ps, now), ps, now)

\* generate_analytics(problems)
generate_analytics(ps) == AnalyticsWith(topic_mapping, ps, today)

-----------------------------------------------------------------------------
(* Python floats (IEEE 754 binary64, round to nearest, ties to even) over  *)
(* the range of the difficulty averages, and _calculate_complexity_trend.  *)

\* A non-negative number is held as the bits, most significant first, of
\* its multiple of 2^-FractionBits, with `sticky` telling that digits
\* beyond the last bit were cut off. The numeral covers [0, 2^IntegerBits).
\* The quotient of two ints with a divisor below 2^30 is 0 or at least
\* 2^-30, so the 53 bits of its significand end at fractional bit 82 or
\* before it, and bit 83 is there to round by; 0.2 and the sums and
\* differences of floats of the numeral are multiples of 2^-82.
FractionBits == 83

IntegerBits == 5

\* The bits of a float's significand.
SignificandBits == 53

\* The w-bit numeral of a natural number below 2^w.
BitsOf(n, w) == [i \in 1 .. w |-> (n \div 2^(w - i)) % 2]

RECURSIVE LongDiv(_, _, _)
\* Long division: the next k bits of the quotient by m, r < m being the
\* remainder so far, and the remainder after them. Each bit tells whether
\* the doubled remainder reaches m; k bits are the first k \div 2 of them
\* followed by the others.
LongDiv(r, m, k) ==
    IF k = 0 THEN [bits |-> <<>>, r |-> r]
    ELSE IF k = 1 THEN [bits |-> <<(2 * r) \div m>>, r |-> (2 * r) % m]
    ELSE LET first == LongDiv(r, m, k \div 2)
             second == LongDiv(first.r, m, k - k \div 2)
         IN  [bits |-> first.bits \o second.bits, r |-> second.r]

\* The quotient of s * 2^FractionBits by m, for 0 <= s < 2^IntegerBits * m
\* and 0 < m < 2^30: the integer part, then FractionBits bits by long
\* division; `sticky` tells whether the division left a remainder.
DivBits(s, m) ==
    LET q == LongDiv(s % m, m, FractionBits)
    IN  [bits |-> BitsOf(s \div m, IntegerBits) \o q.bits, sticky |-> q.r # 0]

\* The carry into bit i of a + b: the nearest lower bit at which a and b do
\* not differ has a 1 in both.
CarryInto(a, b, i) ==
    IF \E j \in (i + 1) .. Len(a) :
            a[j] + b[j] = 2 /\ \A l \in (i + 1) .. (j - 1) : a[l] + b[l] = 1
    THEN 1 ELSE 0

\* a + b for two numerals of one length whose sum fits that length.
AddBits(a, b) == [i \in 1 .. Len(a) |-> (a[i] + b[i] + CarryInto(a, b, i)) % 2]

\* The borrow bit i of a - b gives: at the nearest lower bit at which a and
\* b differ, a has the 0.
BorrowFrom(a, b, i) ==
    IF \E j \in (i + 1) .. Len(a) :
            a[j] < b[j] /\ \A l \in (i + 1) .. (j - 1) : a[l] = b[l]
    THEN 1 ELSE 0

\* a - b for two numerals of one length, a >= b.
SubBits(a, b) == [i \in 1 .. Len(a) |-> (a[i] - b[i] - BorrowFrom(a, b, i) + 2) % 2]

\* a < b for two numerals of one length.
LessBits(a, b) ==
    \E i \in DOMAIN a : a[i] < b[i] /\ \A j \in 1 .. (i - 1) : a[j] = b[j]

\* The nearest float to an exact value, ties to even: the 53 bits from the
\* leading 1 on are kept, and one unit of the last kept bit is added when
\* the cut-off part is more than half of it, or half of it with the last
\* kept bit odd.
RoundToFloat(x) ==
    LET n == Len(x.bits)
        ones == {i \in 1 .. n : x.bits[i] = 1}
    IN  IF ones = {} THEN x.bits
        ELSE LET lead == CHOOSE i \in ones : \A j \in ones : i <= j
                 last == lead + SignificandBits - 1
             IN  IF last >= n THEN x.bits
                 ELSE LET kept == [i \in 1 .. n |-> IF i <= last THEN x.bits[i] ELSE 0]
                          unit == [i \in 1 .. n |-> IF i = last THEN 1 ELSE 0]
                          rest == x.sticky \/ \E j \in (last + 2) .. n : x.bits[j] = 1
                          up == x.bits[last + 1] = 1 /\ (rest \/ x.bits[last] = 1)
                      IN  IF up THEN AddBits(kept, unit) ELSE kept

\* A float: its sign and the numeral of its magnitude.
Float(neg, bits) == [neg |-> neg, bits |-> bits]

\* s / m for two ints, 0 <= s < 2^IntegerBits * m and 0 < m < 2^30 (true
\* division rounds the exact quotient once).
FloatDiv(s, m) ==
    Float(FALSE,
          RoundToFloat(DivBits(s, m)))

\* The literal 0.2: the float nearest to 2/10.
Float_0_2 == FloatDiv(2, 10)

\* x + y for two non-negative floats.
FloatAdd(x, y) ==
    Float(FALSE, RoundToFloat([bits |-> AddBits(x.bits, y.bits),
                               sticky |-> FALSE]))

\* x - y for two non-negative floats.
FloatSub(x, y) ==
    IF LessBits(x.bits, y.bits)
    THEN Float(TRUE, RoundToFloat([bits |-> SubBits(y.bits, x.bits),
                                   sticky |-> FALSE]))
    ELSE Float(FALSE, RoundToFloat([bits |-> SubBits(x.bits, y.bits),
                                    sticky |-> FALSE]))

\* x < y
FloatLess(x, y) ==
    CASE x.neg /\ ~y.neg -> TRUE
      [] ~x.neg /\ y.neg -> FALSE
      [] ~x.neg /\ ~y.neg -> LessBits(x.bits, y.bits)
      [] OTHER -> LessBits(y.bits, x.bits)

S_Insufficient == <<"I", "n", "s", "u", "f", "f", "i", "c", "i", "e", "n", "t", " ", "d", "a", "t", "a">>
S_Improving == <<"I", "m", "p", "r", "o", "v", "i", "n", "g", " ", "-", " ", "s", "o", "l", "v", "i", "n", "g", " ", "h", "a", "r", "d", "e", "r", " ", "p", "r", "o", "b", "l", "e", "m", "s">>
S_Focusing == <<"F", "o", "c", "u", "s", "i", "n", "g", " ", "o", "n", " ", "e", "a", "s", "i", "e", "r", " ", "p", "r", "o", "b", "l", "e", "m", "s">>
S_Consistent == <<"C", "o", "n", "s", "i", "s", "t", "e", "n", "t", " ", "d", "i", "f", "f", "i", "c", "u", "l", "t", "y", " ", "l", "e", "v", "e", "l">>

\* get_difficulty_score(problem)
get_difficulty_score(problem) ==
    LET diff == lower(Get(problem, "difficulty", <<>>))
    IN  CASE diff = S_easy -> 1
          [] diff = S_medium -> 2
          [] diff = S_hard -> 3
          [] OTHER -> 0

RECURSIVE SumScores(_)
\* sum(get_difficulty_score(p) for p in half)
SumScores(half) ==
    IF half = <<>> THEN 0 ELSE get_difficulty_score(Head(half)) + SumScores(Tail(half))

\* The comparison of the two averages.
TrendOf(first_avg, second_avg) ==
    IF FloatLess(FloatAdd(first_avg, Float_0_2), second_avg) THEN S_Improving
    ELSE IF FloatLess(second_avg, FloatSub(first_avg, Float_0_2)) THEN S_Focusing
    ELSE S_Consistent

\* The averages of problems[:mid_point] and problems[mid_point:], compared.
TrendOfHalves(first_half, second_half) ==
    TrendOf(FloatDiv(SumScores(first_half), Len(first_half)),
            FloatDiv(SumScores(second_half), Len(second_half)))

\* _calculate_complexity_trend(problems)
_calculate_complexity_trend(ps) ==
    IF Len(ps) < 10 THEN S_Insufficient
    ELSE TrendOfHalves(SubSeq(ps, 1, Len(ps) \div 2),
                       SubSeq(ps, Len(ps) \div 2 + 1, Len(ps)))

-----------------------------------------------------------------------------
(* The raw records validate_problem_data is called with.                   *)

\* The longest list an operation is called with.
MaxProblems == 2

SeqsUpTo(S, n) == UNION {[1 .. k -> S] : k \in 0 .. n}

\* Values of 'title': absent values, blank, padded, numbers.
RawTitles ==
    { PyNone,
      PyStr(<<>>),
      PyStr(<<" ">>),
      PyStr(<<"A", "b">>),
      PyStr(<<" ", "A", "b", " ">>),
      PyInt(0),
      PyInt(7) }

\* Values of 'difficulty'.
RawDifficulties ==
    { PyNone,
      PyStr(<<>>),
      PyStr(<<"e", "a", "s", "y">>),
      PyStr(<<" ", "e", "A", "s", "Y", " ">>),
      PyStr(<<"M", "E", "D", "I", "U", "M">>),
      PyStr(<<"H", "a", "r", "d">>),
      PyStr(<<"h", "a", "r", "d", "e", "r">>),
      PyStr(<<"n", "o", "t", " ", "e", "a", "s", "y">>) }

\* Values of 'date_solved': ISO dates, dates without zero padding, dates that
\* are not calendar dates, other formats.
RawDates ==
    { PyNone,
      PyStr(<<>>),
      PyStr(<<"2", "0", "2", "4", "-", "0", "1", "-", "0", "5">>),
      PyStr(<<" ", "2", "0", "2", "4", "-", "0", "1", "-", "0", "5", " ">>),
      PyStr(<<"2", "0", "2", "4", "-", "1", "-", "5">>),
      PyStr(<<"2", "0", "2", "4", "-", "0", "1", "-", " ", "5">>),
      PyStr(<<"2", "0", "2", "4", "-", "0", "2", "-", "2", "9">>),
      PyStr(<<"2", "0", "2", "3", "-", "0", "2", "-", "2", "9">>),
      PyStr(<<"2", "0", "2", "4", "-", "0", "2", "-", "3", "0">>),
      PyStr(<<"2", "0", "2", "4", "-", "1", "3", "-", "0", "1">>),
      PyStr(<<"0", "1", "/", "0", "5", "/", "2", "0", "2", "4">>),
      PyStr(<<"2", "0", "2", "4", "-", "0", "1", "-", "0", "5", "x">>),
      PyStr(<<"0", "0", "0", "0", "-", "0", "1", "-", "0", "1">>) }

\* Values of 'topics' and 'companies'.
RawLists ==
    { PyNone,
      PyList(<<>>),
      PyList(<<PyStr(<<"A", "r", "r", "a", "y">>)>>),
      PyList(<<PyStr(<<" ", "D", "P", " ">>), PyStr(<<>>), PyNone, PyStr(<<"D", "P">>)>>),
      PyStr(<<"D", "P">>),
      PyInt(3) }

\* Values of 'acceptance_rate'.
RawRates ==
    { PyNone,
      PyInt(83),
      PyFloat(83),
      PyStr(<<"8", "3">>),
      PyStr(<<" ", "8", "3", " ">>),
      PyStr(<<"8", "3", "%">>),
      PyStr(<<"1", "e", "5">>),
      PyStr(<<"1", "2", "E", "-", "1">>),
      PyStr(<<"-", "I", "n", "f">>) }

\* Values of 'attempts'.
RawAttempts ==
    { PyNone,
      PyInt(3),
      PyStr(<<"3">>),
      PyStr(<<"3", "x">>),
      PyStr(<<"1", "e", "5">>),
      PyStr(<<>>) }

\* A record that carries only a title.
Titled == [title |-> PyStr(<<"A", "b">>)]

\* A record as LeetCodeClient builds it, every key present.
FullRecord ==
    [title |-> PyStr(<<"T", "w", "o", " ", "S", "u", "m">>),
     problem_id |-> PyInt(1),
     title_slug |-> PyStr(<<" ", "t", "w", "o", "-", "s", "u", "m", " ">>),
     difficulty |-> PyStr(<<"E", "a", "s", "y">>),
     topics |-> PyList(<<PyStr(<<"A", "r", "r", "a", "y">>), PyStr(<<"H", "a", "s", "h", " ", "T", "a", "b", "l", "e">>)>>),
     companies |-> PyList(<<>>),
     date_solved |-> PyStr(<<"2", "0", "2", "4", "-", "0", "1", "-", "0", "5">>),
     language |-> PyStr(<<"p", "y", "t", "h", "o", "n", "3">>),
     runtime |-> PyStr(<<"4", "5", " ", "m", "s">>),
     memory |-> PyStr(<<"1", "2", " ", "M", "B">>),
     submission_id |-> PyInt(42),
     is_paid_only |-> PyBool(TRUE),
     category |-> PyStr(<<>>),
     acceptance_rate |-> PyFloat(49),
     attempts |-> PyInt(1),
     status |-> PyStr(<<"S", "o", "l", "v", "e", "d">>)]

\* The raw records of the model: a titled record with one field varied, the
\* title varied on its own and next to a field that cannot be converted, and
\* a complete record.
RawProblems ==
    {[title |-> v] : v \in RawTitles}
    \cup {<<>>, [title |-> PyStr(<<" ">>), attempts |-> PyStr(<<"3", "x">>)]}
    \cup {Titled @@ [difficulty |-> v] : v \in RawDifficulties}
    \cup {Titled @@ [date_solved |-> v] : v \in RawDates}
    \cup {Titled @@ [topics |-> v] : v \in RawLists}
    \cup {Titled @@ [companies |-> v] : v \in {PyNone, PyList(<<PyStr(<<"X">>)>>)}}
    \cup {Titled @@ [acceptance_rate |-> v] : v \in RawRates}
    \cup {Titled @@ [attempts |-> v] : v \in RawAttempts}
    \cup {FullRecord}

NoResult == [kind |-> "none"]

InitValidate ==
    /\ problems \in SeqsUpTo(RawProblems, MaxProblems)
    /\ topic_mapping = <<>>
    /\ today = 0
    /\ result = NoResult
    /\ pc = "call"
    /\ NoManager

\* validated = data_processor.validate_problem_data(problems)
ValidateProblemData ==
    /\ pc = "call"
    /\ result' = validate_problem_data(problems)
    /\ pc' = "done"
    /\ UNCHANGED <<problems, topic_mapping, today, sheets, manager, frame, calls>>

NextValidate == ValidateProblemData

SpecValidate == InitValidate /\ [][NextValidate]_vars

-----------------------------------------------------------------------------
(* Claims about validate_problem_data, checked under SpecValidate.         *)

Returned == pc = "done" /\ result.kind = "return"

\* The input records the result's records stem from, in order.
TitledInputs == SelectSeq(problems, HasTitle)

\* C1: the returned list is no longer than the input, and the title of every
\* returned record is a non-empty string.
ClaimC1 ==
    Returned =>
        /\ Len(result.value) <= Len(problems)
        /\ \A i \in DOMAIN result.value : result.value[i].title # <<>>

\* A raw record whose title is a string with a non-blank character.
HasNonBlankTitle(problem) ==
    /\ "title" \in DOMAIN problem
    /\ problem.title.type = "str"
    /\ \E i \in DOMAIN problem.title.val : ~IsSpace(problem.title.val[i])

\* C2: validate_problem_data never raises, and returns every record of the
\* input that has a title, whatever the other fields of the list hold.
ClaimC2 ==
    pc = "done" =>
        /\ result.kind = "return"
        /\ Len(result.value) >= Cardinality({i \in DOMAIN problems : HasNonBlankTitle(problems[i])})

\* What the specification asks of the difficulty of a record.
ExpectedDifficulty(problem) ==
    LET d == IF "difficulty" \in DOMAIN problem /\ problem.difficulty.type = "str"
             THEN lower(strip(problem.difficulty.val))
             ELSE <<>>
    IN  CASE d = S_easy -> S_Easy
          [] d = S_medium -> S_Medium
          [] d = S_hard -> S_Hard
          [] OTHER -> S_Unknown

\* C3: every returned record has difficulty Easy, Medium, Hard or Unknown:
\* the Title Case form of an input that spells easy, medium or hard in any
\* letter case and with surrounding whitespace, Unknown for any other input.
TheoremC3 ==
    Returned =>
        /\ Len(result.value) = Len(TitledInputs)
        /\ \A i \in DOMAIN result.value :
            /\ result.value[i].difficulty \in {S_Easy, S_Medium, S_Hard, S_Unknown}
            /\ result.value[i].difficulty = ExpectedDifficulty(TitledInputs[i])

\* A mixed-case, padded difficulty came out as Easy next to one that is no
\* difficulty and came out as Unknown.
WitnessC3 ==
    /\ Returned
    /\ Len(problems) = 2
    /\ Len(result.value) = 2
    /\ Get(problems[1], "difficulty", PyNone) = PyStr(<<" ", "e", "A", "s", "Y", " ">>)
    /\ result.value[1].difficulty = S_Easy
    /\ Get(problems[2], "difficulty", PyNone) = PyStr(<<"h", "a", "r", "d", "e", "r">>)
    /\ result.value[2].difficulty = S_Unknown

\* A valid calendar date in the fixed-width form YYYY-MM-DD.
IsIsoDate(s) ==
    /\ Len(s) = 10
    /\ \A i \in {1, 2, 3, 4, 6, 7, 9, 10} : IsDigit(s[i])
    /\ s[5] = "-"
    /\ s[8] = "-"
    /\ IsValidDate(DecVal(SubSeq(s, 1, 4)), DecVal(SubSeq(s, 6, 7)), DecVal(SubSeq(s, 9, 10)))

\* C4: the date_solved of every returned record is empty or a valid calendar
\* date in fixed-width YYYY-MM-DD form, and no titled record is dropped for
\* its date.
ClaimC4 ==
    Returned =>
        /\ Len(result.value) = Len(TitledInputs)
        /\ \A i \in DOMAIN result.value :
            \/ result.value[i].date_solved = <<>>
            \/ IsIsoDate(result.value[i].date_solved)

-----------------------------------------------------------------------------
(* The records and the clock _calculate_streaks is called with.            *)

\* The longest list _calculate_streaks is called with.
MaxSolved == 4

\* Solve dates: three consecutive days across the end of February of a leap
\* year, a day after a gap, and no date.
SolveDates ==
    { <<>>,
      <<"2", "0", "2", "4", "-", "0", "2", "-", "2", "8">>,
      <<"2", "0", "2", "4", "-", "0", "2", "-", "2", "9">>,
      <<"2", "0", "2", "4", "-", "0", "3", "-", "0", "1">>,
      <<"2", "0", "2", "4", "-", "0", "3", "-", "0", "3">> }

\* The record of a problem solved on a date.
SolvedOn(d) == [date_solved |-> d]

\* Values of the clock: from before the first solve date to after the last.
Todays == ToOrdinal(2024, 2, 26) .. ToOrdinal(2024, 3, 5)

InitStreaks ==
    /\ problems \in SeqsUpTo({SolvedOn(d) : d \in SolveDates}, MaxSolved)
    /\ topic_mapping = <<>>
    /\ today \in Todays
    /\ result = NoResult
    /\ pc = "call"
    /\ NoManager

\* current_streak, longest_streak = self._calculate_streaks(problems)
CalculateStreaks ==
    /\ pc = "call"
    /\ result' = Return(_calculate_streaks(problems))
    /\ pc' = "done"
    /\ UNCHANGED <<problems, topic_mapping, today, sheets, manager, frame, calls>>

\* GenerateAnalytics with progress_metrics['current_streak'] read by
\* subscript instead of .get(..., 0): the empty dict of an empty list raises.
GenerateAnalytics_NoDefaults ==
    /\ pc = "call"
    /\ result' = IF calculate_progress_metrics(problems) = <<>>
                 THEN Raise("KeyError")
                 ELSE Return(generate_analytics(problems))
    /\ pc' = "reported"
    /\ UNCHANGED <<problems, topic_mapping, today, sheets, manager, frame, calls>>

\* analytics = data_processor.generate_analytics(problems)
GenerateAnalytics ==
    /\ pc = "call"
    /\ result' = Return(generate_analytics(problems))
    /\ pc' = "reported"
    /\ UNCHANGED <<problems, topic_mapping, today, sheets, manager, frame, calls>>

NextStreaks == CalculateStreaks \/ GenerateAnalytics

SpecStreaks == InitStreaks /\ [][NextStreaks]_vars

-----------------------------------------------------------------------------
(* Claims about _calculate_streaks, checked under SpecStreaks.             *)

\* The calendar days of the records, in the order of the records.
SolveDays == DateObjects(DateStrings(problems))

DaySet == Range(SolveDays)

\* The records are one record for each of k consecutive days ending on L.
IsRunEndingOn(k, L) ==
    /\ k >= 1
    /\ Len(problems) = k
    /\ Len(SolveDays) = k
    /\ DaySet = (L - k + 1) .. L

\* C5: for records on k consecutive days ending on day L, longest_streak is
\* k, and current_streak is k when today is L or L + 1 and 0 for every other
\* value of today.
ClaimC5 ==
    pc = "done" =>
        \A k \in 1 .. Len(problems) : \A L \in DaySet :
            IsRunEndingOn(k, L) =>
                /\ result.value[2] = k
                /\ result.value[1] = IF today \in {L, L + 1} THEN k ELSE 0

\* The number of days of the longest run of consecutive days in a set.
LongestRun(days) ==
    IF days = {} THEN 0
    ELSE LET lengths == {k \in 1 .. Cardinality(days) :
                            \E d \in days : \A j \in 0 .. (k - 1) : (d + j) \in days}
         IN  CHOOSE k \in lengths : \A l \in lengths : l <= k

\* The day of a record's date, 0 when it has no date strptime accepts.
DayOf(problem) ==
    LET ds == DateObjects(DateStrings(<<problem>>))
    IN  IF ds = <<>> THEN 0 ELSE ds[1]

RECURSIVE OnePerDay(_, _)
\* The records without those whose day an earlier record already has.
OnePerDay(ps, seen) ==
    IF ps = <<>> THEN <<>>
    ELSE LET d == DayOf(Head(ps))
         IN  IF d \in seen THEN OnePerDay(Tail(ps), seen)
             ELSE <<Head(ps)>> \o OnePerDay(Tail(ps), IF d = 0 THEN seen ELSE seen \cup {d})

\* C6: longest_streak is the length of the longest run of consecutive
\* calendar days among the solve dates, each day counted once; a further
\* record on a day that already has one changes neither streak.
ClaimC6 ==
    pc = "done" =>
        /\ result.value[2] = LongestRun(DaySet)
        /\ result.value = StreaksAt(OnePerDay(problems, {}), today)

\* C7: longest_streak >= current_streak >= 0, for every list of records and
\* every value of today, in the tuple _calculate_streaks returns and in the
\* summary_stats of generate_analytics.
TheoremC7 ==
    /\ pc = "done" =>
        /\ result.value[2] >= result.value[1]
        /\ result.value[1] >= 0
    /\ pc = "reported" =>
        /\ result.value.summary_stats.longest_streak >= result.value.summary_stats.current_streak
        /\ result.value.summary_stats.current_streak >= 0

\* A report with a run in progress today that is shorter than an earlier,
\* finished run.
WitnessC7 ==
    /\ pc = "reported"
    /\ result.value.summary_stats.current_streak > 0
    /\ result.value.summary_stats.longest_streak > result.value.summary_stats.current_streak
    /\ Cardinality(DaySet) = Len(problems)
    /\ \A d \in DaySet : d <= today
    /\ \E d \in DaySet : today - d <= 1

-----------------------------------------------------------------------------
(* The mappings and records categorize_by_topic is called with.            *)

T_DP == <<"D", "P">>
T_DynamicProgramming == <<"D", "y", "n", "a", "m", "i", "c", " ", "P", "r", "o", "g", "r", "a", "m", "m", "i", "n", "g">>
T_Tree == <<"T", "r", "e", "e">>
T_Trees == <<"T", "r", "e", "e", "s">>
T_BinaryTree == <<"B", "i", "n", "a", "r", "y", " ", "T", "r", "e", "e">>
T_binary_tree == <<"b", "i", "n", "a", "r", "y", " ", "t", "r", "e", "e">>
T_BT == <<"B", "T">>
T_Bin == <<"B", "i", "n">>
T_Array == <<"A", "r", "r", "a", "y">>

\* The longest list categorize_by_topic is called with.
MaxCategorized == 2

\* Values of self.topic_mapping, an ordered dict: no mapping, the mapping of
\* the specification's scenario, and two mappings with the same entries in
\* either order, one key occurring in the other.
TopicMappings ==
    { <<>>,
      << <<T_DP, T_DynamicProgramming>> >>,
      << <<T_Tree, T_Trees>>, <<T_BinaryTree, T_BT>> >>,
      << <<T_BinaryTree, T_BT>>, <<T_Tree, T_Trees>> >> }

\* Values of 'topics': keys of a mapping, names that contain a key, a name
\* contained in a key, unmapped names, repeated names.
TopicLists ==
    { <<>>,
      <<T_DP>>,
      <<T_Array>>,
      <<T_Array, T_Array>>,
      <<T_DP, T_Array>>,
      <<T_Tree>>,
      <<T_BinaryTree>>,
      <<T_binary_tree>>,
      <<T_Bin>>,
      <<T_Tree, T_binary_tree>>,
      <<T_Array, T_DP, T_Array>> }

\* Normalized records: every list of topics on an Easy problem with a date,
\* and one list of topics under the other difficulties and dates.
TopicRecords ==
    {[topics |-> l, difficulty |-> S_Easy, date_solved |-> <<"2", "0", "2", "4", "-", "0", "1", "-", "0", "5">>] : l \in TopicLists}
    \cup {[topics |-> <<T_DP, T_Array>>, difficulty |-> d, date_solved |-> s] :
            d \in {S_Medium, S_Hard, S_Unknown},
            s \in {<<>>, <<"2", "0", "2", "4", "-", "0", "3", "-", "0", "1">>}}
    \cup {[difficulty |-> S_Hard]}

InitTopics ==
    /\ problems \in SeqsUpTo(TopicRecords, MaxCategorized)
    /\ topic_mapping \in TopicMappings
    /\ today = 0
    /\ result = NoResult
    /\ pc = "call"
    /\ NoManager

\* topic_analytics = self.categorize_by_topic(problems)
CategorizeByTopic ==
    /\ pc = "call"
    /\ result' = Return(categorize_by_topic(problems))
    /\ pc' = "done"
    /\ UNCHANGED <<problems, topic_mapping, today, sheets, manager, frame, calls>>

\* mapped_topics = self._map_topics(topics), for the topics of each problem
\* of the list.
MapTopics ==
    /\ pc = "call"
    /\ \E mapped \in [DOMAIN problems ->
                        UNION {_map_topics(Get(problems[i], "topics", <<>>)) : i \in DOMAIN problems}] :
        /\ \A i \in DOMAIN problems : mapped[i] \in _map_topics(Get(problems[i], "topics", <<>>))
        /\ result' = Return(mapped)
    /\ pc' = "mapped"
    /\ UNCHANGED <<problems, topic_mapping, today, sheets, manager, frame, calls>>

NextTopics == CategorizeByTopic \/ MapTopics

SpecTopics == InitTopics /\ [][NextTopics]_vars

-----------------------------------------------------------------------------
(* Claims about _map_topics and categorize_by_topic, checked under         *)
(* SpecTopics.                                                             *)

TopicsOf(problem) == Get(problem, "topics", <<>>)

\* The mapped topic set of a record.
MappedTopicSet(problem) == UNION {Range(l) : l \in _map_topics(TopicsOf(problem))}

\* C8: for every topic t, total(t) is the number of records whose mapped
\* topic set contains t, a record counting once per topic with or without
\* a mapping, also when its topic list repeats a name.
ClaimC8 ==
    pc = "done" =>
        /\ DOMAIN result.value = UNION {MappedTopicSet(problems[i]) : i \in DOMAIN problems}
        /\ \A t \in DOMAIN result.value :
            result.value[t].total =
                Cardinality({i \in DOMAIN problems : t \in MappedTopicSet(problems[i])})

\* The value of the key that equals the topic.
DirectValue(topic) ==
    topic_mapping[CHOOSE i \in DOMAIN topic_mapping : topic_mapping[i][1] = topic][2]

IsKey(topic) == \E i \in DOMAIN topic_mapping : topic_mapping[i][1] = topic

\* The value of the first entry among `hits`, the topic if there is none.
FirstHit(hits, topic) ==
    IF hits = {} THEN topic
    ELSE topic_mapping[CHOOSE i \in hits : \A j \in hits : i <= j][2]

\* The resolution of a topic as C9 states it: only a key that occurs in the
\* topic name matches.
ResolvedByKeyInTopic(topic) ==
    IF IsKey(topic) THEN DirectValue(topic)
    ELSE FirstHit({i \in DOMAIN topic_mapping :
                        contains(lower(topic), lower(topic_mapping[i][1]))}, topic)

\* The resolution of a topic with a match in either direction: the key
\* occurs in the topic name, or the topic name occurs in the key.
ResolvedEitherWay(topic) ==
    IF IsKey(topic) THEN DirectValue(topic)
    ELSE FirstHit({i \in DOMAIN topic_mapping :
                        \/ contains(lower(topic), lower(topic_mapping[i][1]))
                        \/ contains(lower(topic_mapping[i][1]), lower(topic))}, topic)

\* C9 as stated: each topic resolves to the value of the key it equals, else
\* to the value of the first entry whose key occurs in the topic name (case
\* ignored), else to itself; without a mapping every topic is kept.
ClaimC9 ==
    pc = "mapped" =>
        \A i \in DOMAIN problems :
            IF topic_mapping = <<>> THEN result.value[i] = TopicsOf(problems[i])
            ELSE Range(result.value[i]) =
                    {ResolvedByKeyInTopic(x) : x \in Range(TopicsOf(problems[i]))}

\* C9, amended: each topic resolves to the value of the key it equals, else
\* to the value of the first entry whose key occurs in the topic name or
\* contains the topic name (case ignored), else to itself; without a mapping
\* the list of topics is returned as it is.
TheoremC9 ==
    pc = "mapped" =>
        \A i \in DOMAIN problems :
            IF topic_mapping = <<>> THEN result.value[i] = TopicsOf(problems[i])
            ELSE Range(result.value[i]) =
                    {ResolvedEitherWay(x) : x \in Range(TopicsOf(problems[i]))}

\* Under a mapping whose first entry is Tree, the key Binary Tree resolved
\* to its own value, and Bin, which only occurs in a key, resolved to the
\* value of that key.
WitnessC9 ==
    /\ pc = "mapped"
    /\ topic_mapping = << <<T_Tree, T_Trees>>, <<T_BinaryTree, T_BT>> >>
    /\ Len(problems) = 2
    /\ TopicsOf(problems[1]) = <<T_BinaryTree>>
    /\ result.value[1] = <<T_BT>>
    /\ TopicsOf(problems[2]) = <<T_Bin>>
    /\ result.value[2] = <<T_BT>>

\* C10: for every topic of the result, total = solved, and total, solved,
\* easy, medium and hard are non-negative integers.
TheoremC10 ==
    pc = "done" =>
        \A t \in DOMAIN result.value :
            /\ result.value[t].total = result.value[t].solved
            /\ \A f \in {"total", "solved", "easy", "medium", "hard"} :
                result.value[t][f] \in Nat

\* A topic counted for two records, one of them without a date.
WitnessC10 ==
    /\ pc = "done"
    /\ \E t \in DOMAIN result.value :
        /\ result.value[t].total = 2
        /\ \E i \in DOMAIN problems :
            /\ t \in MappedTopicSet(problems[i])
            /\ Get(problems[i], "date_solved", <<>>) = <<>>

-----------------------------------------------------------------------------
(* The path of a full sync: the fetched records are normalized, then       *)
(* categorized and analysed.                                               *)

\* The longest list a sync fetches.
MaxFetched == 3

D_1229 == <<"2", "0", "2", "4", "-", "1", "2", "-", "2", "9">>
D_1230 == <<"2", "0", "2", "4", "-", "1", "2", "-", "3", "0">>
D_0101 == <<"2", "0", "2", "5", "-", "0", "1", "-", "0", "1">>
D_11 == <<"2", "0", "2", "5", "-", "1", "-", "1">>
D_0102 == <<"2", "0", "2", "5", "-", "0", "1", "-", "0", "2">>
D_1301 == <<"2", "0", "2", "4", "-", "1", "3", "-", "0", "1">>

\* Values of 'date_solved' as fetched: no date, a Sunday, the Monday after it
\* (its week runs into the next month and year), the Wednesday of that week
\* written with and without zero padding, the Thursday, and a month 13.
FetchedDates == {<<>>, D_1229, D_1230, D_0101, D_11, D_0102, D_1301}

\* A fetched record, as LeetCodeClient hands it on.
Fetched(topics, date_solved) ==
    [title |-> PyStr(<<"A", "b">>),
     difficulty |-> PyStr(S_Easy),
     topics |-> PyList([i \in DOMAIN topics |-> PyStr(topics[i])]),
     date_solved |-> PyStr(date_solved)]

\* A fetched record without a title, which validation drops.
FetchedUntitled ==
    [title |-> PyStr(<<>>),
     difficulty |-> PyStr(S_Easy),
     topics |-> PyList(<<PyStr(T_Array)>>),
     date_solved |-> PyStr(D_0102)]

\* The fetched records: every date under one topic, two records under two
\* topics, and a record without a title.
FetchedRecords ==
    {Fetched(<<T_Array>>, d) : d \in FetchedDates}
    \cup {Fetched(<<T_DP, T_Array>>, d) : d \in {<<>>, D_0102}}
    \cup {FetchedUntitled}

InitSync ==
    /\ problems \in SeqsUpTo(FetchedRecords, MaxFetched)
    /\ topic_mapping \in {<<>>, << <<T_DP, T_DynamicProgramming>> >>}
    /\ today \in {ToOrdinal(2025, 1, 2), ToOrdinal(2025, 1, 3)}
    /\ result = NoResult
    /\ pc = "fetched"
    /\ NoManager

\* if not problems_data: return False
\* validated_problems = self.data_processor.validate_problem_data(problems_data)
\* if not validated_problems: return False
\* An exception of the validation is caught by sync_all_data, which then
\* returns False as well. Only a non-empty validated list goes on to
\* generate_analytics.
Normalize ==
    /\ pc = "fetched"
    /\ IF problems = <<>>
       THEN /\ problems' = problems
            /\ result' = Return(FALSE)
            /\ pc' = "returned"
       ELSE \E validated \in {validate_problem_data(problems)} :
               IF validated.kind = "return" /\ validated.value # <<>>
               THEN /\ problems' = validated.value
                    /\ result' = NoResult
                    /\ pc' = "call"
               ELSE /\ problems' = problems
                    /\ result' = Return(FALSE)
                    /\ pc' = "returned"
    /\ UNCHANGED <<topic_mapping, today, sheets, manager, frame, calls>>

NextSync == Normalize \/ CategorizeByTopic \/ GenerateAnalytics

SpecSync == InitSync /\ [][NextSync]_vars

-----------------------------------------------------------------------------
(* Claims about the analytics of normalized records, checked under         *)
(* SpecSync.                                                               *)

\* The date of a record, <<>> when it has none.
DateOf(problem) == Get(problem, "date_solved", <<>>)

\* The records that contribute to a topic and have a date.
DatedUnder(t) ==
    {i \in DOMAIN problems : t \in MappedTopicSet(problems[i]) /\ DateOf(problems[i]) # <<>>}

\* C11: for every topic, last_solved is the lexicographically greatest
\* non-empty date_solved among the records contributing to the topic, which
\* for normalized records is the chronologically latest solve date, and it
\* is empty exactly when no contributing record has a date.
ClaimC11 ==
    pc = "done" =>
        \A t \in DOMAIN result.value :
            LET last_solved == result.value[t].last_solved
            IN  /\ last_solved = <<>> <=> DatedUnder(t) = {}
                /\ DatedUnder(t) # {} =>
                    /\ \E i \in DatedUnder(t) : DateOf(problems[i]) = last_solved
                    /\ \A i \in DatedUnder(t) : ~str_less(last_solved, DateOf(problems[i]))
                    /\ \A i \in DatedUnder(t) : DayOf(problems[i]) <= DayOf([date_solved |-> last_solved])

\* C12: generate_analytics on the empty list does not raise and returns
\* topic_analytics = {}, progress_data = [] and summary_stats with
\* total_problems, total_solved, current_streak and longest_streak all 0.
\* A sync never hands the empty list to generate_analytics, so this is
\* checked under SpecStreaks, where the operation is called on the list.
TheoremC12 ==
    (pc = "reported" /\ problems = <<>>) =>
        /\ result.kind = "return"
        /\ DOMAIN result.value.topic_analytics = {}
        /\ result.value.progress_data = <<>>
        /\ result.value.summary_stats.total_problems = 0
        /\ result.value.summary_stats.total_solved = 0
        /\ result.value.summary_stats.current_streak = 0
        /\ result.value.summary_stats.longest_streak = 0

\* The report of the empty list.
WitnessC12 ==
    /\ pc = "reported"
    /\ problems = <<>>
    /\ result.kind = "return"
    /\ DOMAIN result.value = {"topic_analytics", "progress_data", "summary_stats"}

\* progress_data of the report.
ProgressData == result.value.progress_data

\* The calendar day of a progress entry.
EntryDay(entry) == DayOf([date_solved |-> entry.date])

\* The calendar days on which a record was solved.
SolvedDays == {DayOf(problems[i]) : i \in {j \in DOMAIN problems : DateOf(problems[j]) # <<>>}}

RECURSIVE SumDaily(_, _)
\* The sum of daily_count over the entries with the given indices.
SumDaily(entries, indices) ==
    IF indices = {} THEN 0
    ELSE LET i == CHOOSE i \in indices : TRUE
         IN  entries[i].daily_count + SumDaily(entries, indices \ {i})

\* C14: progress_data has exactly one entry per distinct calendar date on
\* which a record was solved, in strictly ascending chronological order;
\* daily_count is the number of records solved on the entry's date and
\* total_solved the sum of daily_count up to and including the entry.
ClaimC14 ==
    pc = "reported" =>
        /\ Len(ProgressData) = Cardinality(SolvedDays)
        /\ {EntryDay(ProgressData[i]) : i \in DOMAIN ProgressData} = SolvedDays
        /\ \A i, j \in DOMAIN ProgressData :
            i < j => EntryDay(ProgressData[i]) < EntryDay(ProgressData[j])
        /\ \A i \in DOMAIN ProgressData :
            /\ ProgressData[i].daily_count =
                Cardinality({j \in DOMAIN problems :
                    DateOf(problems[j]) # <<>> /\ DayOf(problems[j]) = EntryDay(ProgressData[i])})
            /\ ProgressData[i].total_solved = SumDaily(ProgressData, 1 .. i)

\* Two days of one Monday-to-Sunday week (day 1 of the calendar is a Monday).
SameWeek(a, b) == (a - 1) \div 7 = (b - 1) \div 7

\* Two date strings of one calendar month of one year.
SameMonth(s, t) ==
    /\ strptime(s).value.year = strptime(t).value.year
    /\ strptime(s).value.month = strptime(t).value.month

\* C15: weekly_count of an entry is the sum of daily_count over the entries
\* of the same Monday-to-Sunday week, monthly_count the sum over the entries
\* of the same month of the same year, also for a week that runs across the
\* end of a month or year.
TheoremC15 ==
    pc = "reported" =>
        \A i \in DOMAIN ProgressData :
            /\ ProgressData[i].weekly_count =
                SumDaily(ProgressData, {j \in DOMAIN ProgressData :
                    SameWeek(EntryDay(ProgressData[j]), EntryDay(ProgressData[i]))})
            /\ ProgressData[i].monthly_count =
                SumDaily(ProgressData, {j \in DOMAIN ProgressData :
                    SameMonth(ProgressData[j].date, ProgressData[i].date)})

\* Sunday 2024-12-29, Monday 2024-12-30 and Wednesday 2025-01-01: the last
\* two share a week across the end of the year, the first two a month.
WitnessC15 ==
    /\ pc = "reported"
    /\ Len(ProgressData) = 3
    /\ ProgressData[1].date = D_1229
    /\ ProgressData[1].weekly_count = 1
    /\ ProgressData[1].monthly_count = 2
    /\ ProgressData[2].date = D_1230
    /\ ProgressData[2].weekly_count = 2
    /\ ProgressData[2].monthly_count = 2
    /\ ProgressData[3].date = D_0101
    /\ ProgressData[3].weekly_count = 2
    /\ ProgressData[3].monthly_count = 1

\* C18: total_problems is the number of records, total_solved the number of
\* records with a non-empty date_solved, so total_solved <= total_problems;
\* the total_solved of the last progress entry equals the one of
\* summary_stats, and progress_data is empty exactly when total_solved = 0.
TheoremC18 ==
    pc = "reported" =>
        LET stats == result.value.summary_stats
        IN  /\ stats.total_problems = Len(problems)
            /\ stats.total_solved =
                Cardinality({i \in DOMAIN problems : DateOf(problems[i]) # <<>>})
            /\ stats.total_solved <= stats.total_problems
            /\ ProgressData # <<>> =>
                ProgressData[Len(ProgressData)].total_solved = stats.total_solved
            /\ ProgressData = <<>> <=> stats.total_solved = 0

\* Three records, two of them solved on one day and one without a date.
WitnessC18 ==
    /\ pc = "reported"
    /\ result.value.summary_stats.total_problems = 3
    /\ result.value.summary_stats.total_solved = 2
    /\ Len(ProgressData) = 1
    /\ ProgressData[1].daily_count = 2
    /\ ProgressData[1].total_solved = 2

-----------------------------------------------------------------------------
(* Repeated calls on one DataProcessor with one list of records. The       *)
(* objects of the process are on a heap, so that a statement that writes   *)
(* to an object writes to whatever its target refers to: here `problems`   *)
(* and `topic_mapping` are the references to the list the calls are made   *)
(* with and to self.topic_mapping, and frame.heap holds the objects.       *)

\* The number of calls made on the processor.
MaxCalls == 3

\* The longest list the calls are made with.
MaxRepeated == 2

\* Normalized records of the repeated calls.
RepeatedRecords ==
    { [topics |-> <<T_DP, T_Array>>, difficulty |-> S_Easy, date_solved |-> D_0102],
      [topics |-> <<T_Array>>, difficulty |-> S_Hard, date_solved |-> D_0101],
      [topics |-> <<T_Array, T_Array>>, difficulty |-> S_Medium, date_solved |-> <<>>],
      [difficulty |-> S_Easy, date_solved |-> D_0101] }

FirstDay == ToOrdinal(2025, 1, 2)

\* The reference to the object at an address of the heap, the object a
\* reference refers to, the heap with one more object, and the heap after
\* an assignment to an object.
Ref(n) == [ref |-> n]
At(heap, r) == heap[r.ref]
Alloc(heap, object) == Append(heap, object)
Store(heap, r, object) == [heap EXCEPT ![r.ref] = object]

\* The dict of a record on the heap: 'topics' refers to the list of its
\* topics, a str is held by value.
RecordObject(record, topics) ==
    [k \in DOMAIN record |-> IF k = "topics" THEN topics ELSE record[k]]

\* A record is put on the heap and appended to the list at 2: its dict,
\* and the list of its topics when it has one.
WithRecord(heap, record) ==
    Store(IF "topics" \in DOMAIN record
          THEN Alloc(Alloc(heap, RecordObject(record, Ref(Len(heap) + 2))), record.topics)
          ELSE Alloc(heap, record),
          Ref(2), Append(heap[2], Ref(Len(heap) + 1)))

RECURSIVE WithRecords(_, _)
WithRecords(heap, ps) ==
    IF ps = <<>> THEN heap ELSE WithRecords(WithRecord(heap, Head(ps)), Tail(ps))

\* The heap before the first call: self.topic_mapping at 1, the list the
\* calls are made with at 2, then the records. With `shared` the list
\* holds one record twice, as one object.
InputHeap(mapping, ps, shared) ==
    IF shared
    THEN Store(WithRecords(<<mapping, <<>>>>, <<ps[1]>>), Ref(2), <<Ref(3), Ref(3)>>)
    ELSE WithRecords(<<mapping, <<>>>>, ps)

\* The addresses of the objects the list, its records and
\* self.topic_mapping are made of.
Reachable(heap, list, mapping) ==
    {list.ref, mapping.ref}
    \cup {At(heap, list)[k].ref : k \in DOMAIN At(heap, list)}
    \cup {At(heap, At(heap, list)[k]).topics.ref :
            k \in {n \in DOMAIN At(heap, list) :
                    "topics" \in DOMAIN At(heap, At(heap, list)[n])}}

\* The heap once a call has returned: its result is with the caller, and
\* the objects after the last one that the list, its records or
\* self.topic_mapping refer to are gone.
Collected(heap, list, mapping) ==
    SubSeq(heap, 1, CHOOSE a \in Reachable(heap, list, mapping) :
                        \A b \in Reachable(heap, list, mapping) : b <= a)

\* The locals of the running call.
NoCall ==
    [op |-> "", at |-> 0, topic_stats |-> Ref(0), i |-> 0, problem |-> Ref(0),
     difficulty |-> <<>>, date_solved |-> <<>>, mapped_topics |-> Ref(0), j |-> 0,
     topic_analytics |-> Ref(0), progress_metrics |-> Ref(0)]

\* `result` is the list of the calls made so far: the operation, the day of
\* the clock and what the call returned, by value.
InitRepeat ==
    /\ problems = Ref(2)
    /\ topic_mapping = Ref(1)
    /\ \E ps \in SeqsUpTo(RepeatedRecords, MaxRepeated),
          mapping \in {<<>>, << <<T_DP, T_DynamicProgramming>> >>},
          shared \in BOOLEAN :
        /\ shared => Len(ps) = 2 /\ ps[1] = ps[2]
        /\ frame = [heap |-> InputHeap(mapping, ps, shared), call |-> NoCall]
    /\ today = FirstDay
    /\ result = <<>>
    /\ pc = "idle"
    /\ sheets = NoSheets
    /\ manager = <<>>
    /\ calls = <<>>

\* topic_stats = defaultdict(...), the first statement of
\* categorize_by_topic(problems), called as `op` or by it.
Called(op) ==
    /\ pc = "idle"
    /\ Len(result) < MaxCalls
    /\ frame' = [heap |-> Alloc(frame.heap, <<>>),
                 call |-> [NoCall EXCEPT !.op = op, !.at = today,
                                         !.topic_stats = Ref(Len(frame.heap) + 1)]]
    /\ pc' = "for problem"
    /\ UNCHANGED <<problems, topic_mapping, today, result, sheets, manager, calls>>

\* A call of categorize_by_topic(problems).
CategorizeByTopicCalled == Called("categorize_by_topic")

\* A call of generate_analytics(problems), up to the first statement of its
\* self.categorize_by_topic(problems).
GenerateAnalyticsCalled == Called("generate_analytics")

\* topics = problem.get('topics', []): the list the record refers to, or
\* a new list.
GetTopics(heap, problem) ==
    IF "topics" \in DOMAIN At(heap, problem)
    THEN [heap |-> heap, ref |-> At(heap, problem).topics]
    ELSE [heap |-> Alloc(heap, <<>>), ref |-> Ref(Len(heap) + 1)]

\* self._map_topics(topics): the list `topics` itself when
\* self.topic_mapping is empty, else a new list of the mapped topics, in
\* any order of the set.
MappedTopics(heap, mapping, topics) ==
    IF At(heap, mapping) = <<>>
    THEN {[heap |-> heap, ref |-> topics]}
    ELSE {[heap |-> Alloc(heap, mapped_topics), ref |-> Ref(Len(heap) + 1)] :
            mapped_topics \in MapTopicsWith(At(heap, mapping), At(heap, topics))}

\* `for problem in problems`: the next record with its topics, difficulty
\* and date and the list _map_topics returns, or the end of the loop.
ForProblem ==
    /\ pc = "for problem"
    /\ IF frame.call.i < Len(At(frame.heap, problems))
       THEN \E problem \in {At(frame.heap, problems)[frame.call.i + 1]} :
            \E topics \in {GetTopics(frame.heap, problem)} :
            \E mapped_topics \in MappedTopics(topics.heap, topic_mapping, topics.ref) :
                /\ frame' = [heap |-> mapped_topics.heap,
                             call |-> [frame.call EXCEPT
                                !.i = @ + 1,
                                !.problem = problem,
                                !.difficulty = lower(Get(At(frame.heap, problem),
                                                         "difficulty", <<>>)),
                                !.date_solved = Get(At(frame.heap, problem),
                                                    "date_solved", <<>>),
                                !.mapped_topics = mapped_topics.ref,
                                !.j = 0]]
                /\ pc' = "for topic"
       ELSE /\ pc' = "convert"
            /\ UNCHANGED frame
    /\ UNCHANGED <<problems, topic_mapping, today, result, sheets, manager, calls>>

\* topic_stats[topic] of the defaultdict: a topic that is no key gets a new
\* dict with a new list of problems.
WithStats(heap, topic_stats, topic) ==
    IF topic \in DOMAIN At(heap, topic_stats) THEN heap
    ELSE Store(Alloc(Alloc(heap, <<>>),
                     [problems |-> Ref(Len(heap) + 1)] @@ NewTopicStat),
               topic_stats,
               (topic :> Ref(Len(heap) + 2)) @@ At(heap, topic_stats))

\* The body of `for topic in mapped_topics` on the dict `stats` of the
\* topic: the counts and last_solved are assigned in the dict, and the
\* problem is appended to its list of problems.
Counted(heap, stats, problem, difficulty, date_solved) ==
    Store(Store(heap, stats,
                [problems |-> At(heap, stats).problems]
                    @@ CountProblem(At(heap, stats), difficulty, date_solved)),
          At(heap, stats).problems,
          Append(At(heap, At(heap, stats).problems), problem))

\* `for topic in mapped_topics`: the body for the next topic, or the end of
\* the loop.
ForTopic ==
    /\ pc = "for topic"
    /\ IF frame.call.j < Len(At(frame.heap, frame.call.mapped_topics))
       THEN \E topic \in {At(frame.heap, frame.call.mapped_topics)[frame.call.j + 1]} :
            \E heap \in {WithStats(frame.heap, frame.call.topic_stats, topic)} :
                /\ frame' = [heap |-> Counted(heap, At(heap, frame.call.topic_stats)[topic],
                                              frame.call.problem, frame.call.difficulty,
                                              frame.call.date_solved),
                             call |-> [frame.call EXCEPT !.j = @ + 1]]
                /\ UNCHANGED pc
       ELSE /\ pc' = "for problem"
            /\ UNCHANGED frame
    /\ UNCHANGED <<problems, topic_mapping, today, result, sheets, manager, calls>>

\* The dict `result` of categorize_by_topic: for every topic a new dict of
\* the six statistics. The dicts are written inside it, nothing else
\* refers to them.
Converted(heap, topic_stats) ==
    [topic \in DOMAIN At(heap, topic_stats) |->
        [total |-> At(heap, At(heap, topic_stats)[topic]).total,
         solved |-> At(heap, At(heap, topic_stats)[topic]).solved,
         easy |-> At(heap, At(heap, topic_stats)[topic]).easy,
         medium |-> At(heap, At(heap, topic_stats)[topic]).medium,
         hard |-> At(heap, At(heap, topic_stats)[topic]).hard,
         last_solved |-> At(heap, At(heap, topic_stats)[topic]).last_solved]]

\* The end of categorize_by_topic: `result` is built and returned, to the
\* caller of the operation or to generate_analytics.
ReturnTopics ==
    /\ pc = "convert"
    /\ IF frame.call.op = "categorize_by_topic"
       THEN /\ result' = Append(result,
                    [op |-> frame.call.op, at |-> frame.call.at,
                     out |-> [topic_analytics |->
                                Converted(frame.heap, frame.call.topic_stats)]])
            /\ frame' = [heap |-> Collected(frame.heap, problems, topic_mapping),
                         call |-> NoCall]
            /\ pc' = "idle"
       ELSE /\ frame' = [heap |-> Alloc(frame.heap,
                                        Converted(frame.heap, frame.call.topic_stats)),
                         call |-> [frame.call EXCEPT
                                     !.topic_analytics = Ref(Len(frame.heap) + 1)]]
            /\ pc' = "progress metrics"
            /\ UNCHANGED result
    /\ UNCHANGED <<problems, topic_mapping, today, sheets, manager, calls>>

\* The records a list of references refers to, by value.
Records(heap, refs) ==
    [k \in DOMAIN refs |->
        [f \in DOMAIN At(heap, refs[k]) |->
            IF f = "topics" THEN At(heap, At(heap, refs[k]).topics)
            ELSE At(heap, refs[k])[f]]]

RECURSIVE InsertRef(_, _, _)
\* One step of the stable sort by date_solved on references to records.
InsertRef(heap, sorted, x) ==
    IF sorted = <<>> THEN <<x>>
    ELSE IF str_less(Get(At(heap, x), "date_solved", <<>>),
                     Get(At(heap, Head(sorted)), "date_solved", <<>>))
         THEN <<x>> \o sorted
         ELSE <<Head(sorted)>> \o InsertRef(heap, Tail(sorted), x)

RECURSIVE SortedRefs(_, _, _)
\* The references `refs` sorted by date_solved, those to a record without
\* a date left out unless `all`.
SortedRefs(heap, refs, all) ==
    IF refs = <<>> THEN <<>>
    ELSE IF all \/ Get(At(heap, refs[Len(refs)]), "date_solved", <<>>) # <<>>
         THEN InsertRef(heap, SortedRefs(heap, SubSeq(refs, 1, Len(refs) - 1), all),
                        refs[Len(refs)])
         ELSE SortedRefs(heap, SubSeq(refs, 1, Len(refs) - 1), all)

\* SortedProblems with problems.sort(key=...) before the comprehension: the
\* list the call was given is sorted in place.
SortedProblems_InPlace(heap, list) ==
    Alloc(Store(heap, list, SortedRefs(heap, At(heap, list), TRUE)),
          SortedRefs(heap, At(heap, list), FALSE))

\* sorted_problems = sorted([p for p in problems if p.get('date_solved')],
\* key=...): a new list that refers to the records of `list`.
SortedProblems(heap, list) == Alloc(heap, SortedRefs(heap, At(heap, list), FALSE))

\* The rest of calculate_progress_metrics once sorted_problems is built:
\* the list daily_progress, then the dict `metrics` that refers to it.
MetricsOn(heap, list, sorted_problems, now) ==
    Alloc(Alloc(heap, _calculate_daily_progress(Records(heap, At(heap, sorted_problems)))),
          [total_problems |-> Len(At(heap, list)),
           total_solved |-> Len(At(heap, sorted_problems)),
           current_streak |-> StreaksAt(Records(heap, At(heap, sorted_problems)), now)[1],
           longest_streak |-> StreaksAt(Records(heap, At(heap, sorted_problems)), now)[2],
           daily_progress |-> Ref(Len(heap) + 1)])

\* The heap after calculate_progress_metrics(problems) with the clock at
\* `now`: an empty dict for an empty list, else sorted_problems and what
\* is built from it. The dict returned is the newest object.
ProgressMetrics(heap, list, now) ==
    IF At(heap, list) = <<>> THEN Alloc(heap, <<>>)
    ELSE MetricsOn(SortedProblems(heap, list), list, Ref(Len(heap) + 1), now)

\* progress_metrics = self.calculate_progress_metrics(problems)
CalculateProgressMetrics ==
    /\ pc = "progress metrics"
    /\ \E heap \in {ProgressMetrics(frame.heap, problems, today)} :
        frame' = [heap |-> heap,
                  call |-> [frame.call EXCEPT !.progress_metrics = Ref(Len(heap))]]
    /\ pc' = "analytics data"
    /\ UNCHANGED <<problems, topic_mapping, today, result, sheets, manager, calls>>

\* progress_metrics.get('daily_progress', []), by value
DailyProgress(heap, progress_metrics) ==
    IF "daily_progress" \in DOMAIN At(heap, progress_metrics)
    THEN At(heap, At(heap, progress_metrics).daily_progress)
    ELSE <<>>

\* analytics_data of generate_analytics, by value: the dict refers to the
\* dict categorize_by_topic returned and to the list daily_progress, and
\* holds a new dict summary_stats.
AnalyticsOn(heap, list, topic_analytics, progress_metrics, now) ==
    [topic_analytics |-> At(heap, topic_analytics),
     progress_data |-> DailyProgress(heap, progress_metrics),
     summary_stats |->
        [total_problems |-> Len(At(heap, list)),
         total_solved |-> Len(DateStrings(Records(heap, At(heap, list)))),
         current_streak |-> Get(At(heap, progress_metrics), "current_streak", 0),
         longest_streak |-> Get(At(heap, progress_metrics), "longest_streak", 0),
         last_updated |-> now]]

\* The end of generate_analytics: analytics_data is built and returned.
ReturnAnalytics ==
    /\ pc = "analytics data"
    /\ result' = Append(result,
            [op |-> frame.call.op, at |-> frame.call.at,
             out |-> AnalyticsOn(frame.heap, problems, frame.call.topic_analytics,
                                 frame.call.progress_metrics, today)])
    /\ frame' = [heap |-> Collected(frame.heap, problems, topic_mapping), call |-> NoCall]
    /\ pc' = "idle"
    /\ UNCHANGED <<problems, topic_mapping, today, sheets, manager, calls>>

\* The date changes between two calls.
Midnight ==
    /\ pc = "idle"
    /\ today < FirstDay + 1
    /\ today' = today + 1
    /\ UNCHANGED <<problems, topic_mapping, result, pc, sheets, manager, frame, calls>>

NextRepeat ==
    \/ CategorizeByTopicCalled
    \/ GenerateAnalyticsCalled
    \/ ForProblem
    \/ ForTopic
    \/ ReturnTopics
    \/ CalculateProgressMetrics
    \/ ReturnAnalytics
    \/ Midnight

SpecRepeat == InitRepeat /\ [][NextRepeat]_vars

\* What a call returned, last_updated left out.
Outcome(call) ==
    IF call.op = "generate_analytics"
    THEN [topic_analytics |-> call.out.topic_analytics,
          progress_data |-> call.out.progress_data,
          summary_stats |-> [f \in DOMAIN call.out.summary_stats \ {"last_updated"} |->
                                call.out.summary_stats[f]]]
    ELSE call.out

\* The records of the list the calls are made with, in the order of the
\* list, and self.topic_mapping, by value.
InputRecords == Records(frame.heap, At(frame.heap, problems))
SelfTopicMapping == At(frame.heap, topic_mapping)

\* C13: two calls of the same operation on the same records under the same
\* date return the same result apart from last_updated, whatever calls were
\* made before, and no statement of a call changes the list, its records,
\* their topics or topic_mapping.
TheoremC13 ==
    /\ [](\A i, j \in DOMAIN result :
            (result[i].op = result[j].op /\ result[i].at = result[j].at)
                => Outcome(result[i]) = Outcome(result[j]))
    /\ [][/\ problems' = problems
          /\ topic_mapping' = topic_mapping
          /\ InputRecords' = InputRecords
          /\ SelfTopicMapping' = SelfTopicMapping]_vars

\* Three calls on a list with a mapped topic whose records are not in the
\* order of their dates: categorize_by_topic, then generate_analytics twice
\* on the same day, with a streak in progress.
WitnessC13 ==
    /\ Len(result) = 3
    /\ result[1].op = "categorize_by_topic"
    /\ result[2].op = "generate_analytics"
    /\ result[3].op = "generate_analytics"
    /\ result[2].at = result[3].at
    /\ DOMAIN result[1].out.topic_analytics = {T_DynamicProgramming, T_Array}
    /\ result[3].out.topic_analytics[T_Array].total = 2
    /\ result[3].out.summary_stats.current_streak = 2
    /\ InputRecords[1].date_solved = D_0102
    /\ InputRecords[2].date_solved = D_0101

-----------------------------------------------------------------------------
(* The records _calculate_complexity_trend is called with.                 *)

\* The longest list _calculate_complexity_trend is called with.
MaxTrend == 12

\* n records of one difficulty.
Run(difficulty, n) == [i \in 1 .. n |-> [difficulty |-> difficulty]]

\* Lists of date-sorted records: up to three runs of records of one
\* difficulty each.
TrendLists ==
    {Run(d[1], n[1]) \o Run(d[2], n[2]) \o Run(d[3], n[3]) :
        d \in {S_Easy, S_Medium, S_Hard, S_Unknown} \X {S_Easy, S_Medium, S_Hard, S_Unknown}
                \X {S_Easy, S_Medium, S_Hard, S_Unknown},
        n \in {t \in (0 .. MaxTrend) \X (0 .. MaxTrend) \X (0 .. MaxTrend) :
                    t[1] + t[2] + t[3] <= MaxTrend}}

InitTrend ==
    /\ problems \in TrendLists
    /\ topic_mapping = <<>>
    /\ today = 0
    /\ result = NoResult
    /\ pc = "call"
    /\ NoManager

\* 'complexity_trend': self._calculate_complexity_trend(problems)
CalculateComplexityTrend ==
    /\ pc = "call"
    /\ result' = Return(_calculate_complexity_trend(problems))
    /\ pc' = "done"
    /\ UNCHANGED <<problems, topic_mapping, today, sheets, manager, frame, calls>>

NextTrend == CalculateComplexityTrend

SpecTrend == InitTrend /\ [][NextTrend]_vars

\* The number of records of a difficulty among problems[from .. to].
CountOf(difficulty, from, to) ==
    Cardinality({i \in from .. to : problems[i].difficulty = difficulty})

\* The sum of the scores easy = 1, medium = 2, hard = 3, other = 0 over
\* problems[from .. to].
ScoreSum(from, to) ==
    CountOf(S_Easy, from, to) + 2 * CountOf(S_Medium, from, to) + 3 * CountOf(S_Hard, from, to)

\* C16: the trend is 'Insufficient data' for fewer than 10 records;
\* otherwise, with the first floor(n/2) records as first half and the rest
\* as second half, it is Improving exactly when mean(second) - mean(first)
\* > 0.2, Focusing on easier problems exactly when mean(first) -
\* mean(second) > 0.2, and Consistent otherwise. With the sums s1 and s2 and
\* the lengths m and k of the halves, s2/k - s1/m > 1/5 is
\* 5 * (s2 * m - s1 * k) > m * k.
ClaimC16 ==
    pc = "done" =>
        LET n == Len(problems)
            m == n \div 2
            k == n - m
            s1 == ScoreSum(1, m)
            s2 == ScoreSum(m + 1, n)
        IN  result.value =
                IF n < 10 THEN S_Insufficient
                ELSE IF 5 * (s2 * m - s1 * k) > m * k THEN S_Improving
                ELSE IF 5 * (s1 * k - s2 * m) > m * k THEN S_Focusing
                ELSE S_Consistent

-----------------------------------------------------------------------------
(* SheetsClient and SyncManager (src/src/sheets_client.py,                 *)
(* src/src/sync_manager.py).                                               *)
(*                                                                         *)
(* A sheet is modelled by its data rows (the header row is left out): the  *)
(* Problems sheet by the list of its rows, the Analytics sheet by the      *)
(* topic dict its rows are written from, the Progress sheet by the list of *)
(* progress entries.  A cell is read back as it was written.  Timestamps   *)
(* carry the date of the clock only.                                       *)

\* The value of a loosely typed entry, for the code that reads it without
\* converting it: the str, the list of str, the number.
Plain(v) ==
    CASE v.type = "str" -> v.val
      [] v.type = "list" -> [i \in DOMAIN v.val |-> v.val[i].val]
      [] OTHER -> v.val

\* The raw dict as generate_analytics and update_problems_sheet read it;
\* 'attempts' keeps the tag of its type, for the cell it is written into.
PlainProblem(problem) ==
    [k \in DOMAIN problem |-> IF k = "attempts" THEN problem[k] ELSE Plain(problem[k])]

PlainProblems(ps) == [i \in DOMAIN ps |-> PlainProblem(ps[i])]

\* datetime.now().strftime('%Y-%m-%d %H:%M:%S'), the date of it
strftime(now) ==
    LET d == FromOrdinal(now)
    IN  FormatDate(d.year, d.month, d.day)

S_CommaSpace == <<",", " ">>

RECURSIVE join(_, _)
\* sep.join(items)
join(sep, items) ==
    IF items = <<>> THEN <<>>
    ELSE IF Len(items) = 1 THEN items[1]
    ELSE items[1] \o sep \o join(sep, Tail(items))

RECURSIVE split(_, _)
\* s.split(sep)
split(s, sep) ==
    LET hits == {i \in 1 .. (Len(s) - Len(sep) + 1) : SubSeq(s, i, i + Len(sep) - 1) = sep}
    IN  IF hits = {} THEN <<s>>
        ELSE LET i == CHOOSE h \in hits : \A g \in hits : h <= g
             IN  <<SubSeq(s, 1, i - 1)>> \o split(SubSeq(s, i + Len(sep), Len(s)), sep)

\* The row update_problems_sheet writes for a problem. The Attempts cell is
\* a loosely typed value: the int a sync wrote, or whatever else the
\* record or an edit of the sheet put there.
ProblemRow(problem, now) ==
    [title |-> Get(problem, "title", <<>>),
     difficulty |-> Get(problem, "difficulty", <<>>),
     topics |-> join(S_CommaSpace, Get(problem, "topics", <<>>)),
     date_solved |-> Get(problem, "date_solved", <<>>),
     attempts |-> Get(problem, "attempts", PyInt(1)),
     status |-> Get(problem, "status", S_Solved),
     problem_id |-> Get(problem, "problem_id", <<>>),
     last_updated |-> strftime(now)]

\* rows of update_problems_sheet
ProblemRows(problems_data, now) ==
    [i \in DOMAIN problems_data |-> ProblemRow(problems_data[i], now)]

\* The dict get_existing_problems builds from a row whose Attempts cell
\* int() converted to `attempts`, or the exception int() raised.
ExistingProblemWith(row, attempts) ==
    IF attempts.kind = "raise" THEN attempts
    ELSE Return(
        [title |-> row.title,
         difficulty |-> row.difficulty,
         topics |-> IF row.topics # <<>> THEN split(row.topics, S_CommaSpace) ELSE <<>>,
         date_solved |-> row.date_solved,
         attempts |-> PyInt(attempts.value),
         status |-> row.status,
         problem_id |-> row.problem_id,
         last_updated |-> row.last_updated])

\* The dict get_existing_problems builds from a row:
\* 'attempts': int(row.get('Attempts', 1)).
ExistingProblem(row) == ExistingProblemWith(row, py_int(row.attempts))

\* problems.append(problem) in the loop of get_existing_problems: the
\* first row whose dict cannot be built ends the loop with its exception.
Appended(first, rest) ==
    IF first.kind = "raise" THEN first
    ELSE IF rest.kind = "raise" THEN rest
    ELSE Return(<<first.value>> \o rest.value)

RECURSIVE ExistingProblems(_)
\* The loop of get_existing_problems: rows without a 'Problem Name' are
\* skipped before their cells are converted.
ExistingProblems(rows) ==
    IF rows = <<>> THEN Return(<<>>)
    ELSE IF Head(rows).title = <<>> THEN ExistingProblems(Tail(rows))
    ELSE Appended(ExistingProblem(Head(rows)), ExistingProblems(Tail(rows)))

\* `except Exception as e: ... return []` around the body of
\* get_existing_problems.
ExistingOrNone(outcome) == IF outcome.kind = "raise" THEN <<>> ELSE outcome.value

\* get_existing_problems(): the problems of the Problems sheet, [] when the
\* read or the loop raised.
get_existing_problems(readable) ==
    IF readable THEN ExistingOrNone(ExistingProblems(sheets.Problems)) ELSE <<>>

\* The ways update_*_sheet can end: "ok" (cleared and rewritten, True),
\* "untouched" (an exception before worksheet.clear() took effect, False),
\* "cleared" (an exception after it and before the rows were written,
\* False), and for the Analytics sheet "unformatted" (worksheet.format() of
\* the percentage column raised after the rows were written, False);
\* nothing is left to raise after the clear when there is no row to write.
UpdateOutcomes(name, rows) ==
    IF rows = <<>> THEN {"ok", "untouched"}
    ELSE IF name = "Analytics" THEN {"ok", "untouched", "cleared", "unformatted"}
    ELSE {"ok", "untouched", "cleared"}

\* The data rows of a sheet after an update that ended with `outcome`.
SheetAfter(old, rows, outcome) ==
    CASE outcome \in {"ok", "unformatted"} -> rows
      [] outcome = "cleared" -> <<>>
      [] OTHER -> old

\* The three sheets as _update_google_sheets leaves them when every update
\* succeeded.
SheetsOf(problems_data, analytics_data, now) ==
    [Problems |-> ProblemRows(problems_data, now),
     Analytics |-> Get(analytics_data, "topic_analytics", <<>>),
     Progress |-> Get(analytics_data, "progress_data", <<>>)]

\* SyncManager.__init__
NewManager ==
    [last_sync_time |-> PyNone,
     sync_stats |-> [total_problems |-> 0, new_problems |-> 0,
                     updated_problems |-> 0, errors |-> 0, last_sync |-> PyNone]]

\* "Update sync state" of sync_all_data after a successful update.
FullSyncDone(m, validated_problems, now) ==
    [last_sync_time |-> [type |-> "datetime", val |-> now],
     sync_stats |-> [total_problems |-> Len(validated_problems),
                     new_problems |-> Len(validated_problems),
                     updated_problems |-> 0, errors |-> 0,
                     last_sync |-> PyStr(strftime(now))]]

\* self.sync_stats.update(...) of incremental_sync after a successful update.
IncrementalSyncDone(m, all_problems_for_sync, new_problems, now) ==
    [m EXCEPT !.sync_stats =
        [@ EXCEPT !.total_problems = Len(all_problems_for_sync),
                  !.new_problems = Len(new_problems),
                  !.updated_problems = 0,
                  !.last_sync = PyStr(strftime(now))]]

\* The except branch of sync_all_data: self.sync_stats['errors'] += 1
SyncFailed(m) == [m EXCEPT !.sync_stats.errors = @ + 1]

\* ManagerAfter without the test `if success:`.
ManagerAfter_Regardless(m, f, success, now) ==
    CASE f.op = "sync_all_data" -> FullSyncDone(m, f.problems_data, now)
      [] f.op = "incremental_sync" ->
            IncrementalSyncDone(m, f.problems_data, f.new_problems, now)
      [] OTHER -> m

\* The manager after the operation of frame f got `success` from
\* _update_google_sheets.
ManagerAfter(m, f, success, now) ==
    IF ~success THEN m
    ELSE CASE f.op = "sync_all_data" -> FullSyncDone(m, f.problems_data, now)
           [] f.op = "incremental_sync" ->
                IncrementalSyncDone(m, f.problems_data, f.new_problems, now)
           [] OTHER -> m

RECURSIVE NewProblems(_, _)
\* [p for p in all_problems if p.get('title') not in existing_titles]
NewProblems(all_problems, existing_titles) ==
    IF all_problems = <<>> THEN <<>>
    ELSE IF Get(Head(all_problems), "title", <<>>) \notin existing_titles
         THEN <<Head(all_problems)>> \o NewProblems(Tail(all_problems), existing_titles)
         ELSE NewProblems(Tail(all_problems), existing_titles)

RECURSIVE RecentProblems(_, _)
\* The filter of cleanup_old_data: date_solved and date_solved >= cutoff_str
RecentProblems(problems_data, cutoff_str) ==
    IF problems_data = <<>> THEN <<>>
    ELSE LET date_solved == Get(Head(problems_data), "date_solved", <<>>)
         IN  IF date_solved # <<>> /\ ~str_less(date_solved, cutoff_str)
             THEN <<Head(problems_data)>> \o RecentProblems(Tail(problems_data), cutoff_str)
             ELSE RecentProblems(Tail(problems_data), cutoff_str)

\* Where _update_google_sheets goes on after an update that reported
\* `success` without looking at it.
AfterUpdate_Unchecked(success, next) == next

\* Where _update_google_sheets goes on after an update that reported
\* `success`: `if not ..._success: return False`.
AfterUpdate(success, next) == IF success THEN next ELSE "return False"

-----------------------------------------------------------------------------
(* The operations of one SyncManager, step by step.                        *)

\* The number of operations of a run.
MaxOperations == 2

\* The length of the list LeetCodeClient.get_all_solved_problems returns.
MaxRemote == 2

T_A == <<"A">>
T_B == <<"B">>
S_5Percent == <<"5", "%">>

\* A problem as get_all_solved_problems builds it.
Solved(title_, difficulty, topics, date_solved) ==
    [title |-> PyStr(title_),
     difficulty |-> PyStr(difficulty),
     topics |-> PyList([i \in DOMAIN topics |-> PyStr(topics[i])]),
     date_solved |-> PyStr(date_solved),
     attempts |-> PyInt(1),
     status |-> PyStr(S_Solved)]

\* The solved problems LeetCode can report: A solved on 2024-12-30, B of
\* unknown difficulty solved on 2025-01-02, and B with the acceptance rate
\* as the API spells it.
RemoteProblems ==
    {Solved(T_A, S_Easy, <<T_Array>>, D_1230),
     Solved(T_B, <<>>, <<T_DP, T_Array>>, D_0102),
     [acceptance_rate |-> PyStr(S_5Percent)] @@ Solved(T_B, S_Medium, <<T_DP>>, D_0102)}

\* The sheets before the first operation: new, or as a full sync of problem
\* A left them.
FirstSheets ==
    {NoSheets}
    \cup {LET validated == validate_problem_data(<<Solved(T_A, S_Easy, <<T_Array>>, D_1230)>>).value
          IN  SheetsOf(validated,
                       AnalyticsWith(<< <<T_DP, T_DynamicProgramming>> >>, validated,
                                     ToOrdinal(2025, 1, 2)),
                       ToOrdinal(2025, 1, 2))}

\* The Attempts cell of problem A before the first operation: as the sync
\* wrote it, or edited by hand to a number typed as text or to a text int()
\* does not read.
AttemptsCells == {PyInt(1), PyStr(<<"2">>), PyStr(<<"x">>)}

\* The sheets `synced` with `cell` as the Attempts cell of their first row.
EditedSheet(synced, cell) ==
    [synced EXCEPT !.Problems = IF @ = <<>> THEN @ ELSE <<[@[1] EXCEPT !.attempts = cell]>>]

\* The sheets before the first operation of a manager that reads them, for
\* the Attempts cells `cells`.
EditedSheets(cells) == {EditedSheet(synced, cell) : synced \in FirstSheets, cell \in cells}

InitManager ==
    /\ problems \in SeqsUpTo(RemoteProblems, MaxRemote)
    /\ topic_mapping = << <<T_DP, T_DynamicProgramming>> >>
    /\ today = ToOrdinal(2025, 1, 2)
    /\ result = NoResult
    /\ pc = "idle"
    /\ sheets \in EditedSheets({PyInt(1), PyStr(<<"x">>)})
    /\ manager = NewManager
    /\ frame = [NoFrame EXCEPT !.before = sheets]
    /\ calls = <<>>

\* The values cleanup_old_data is called with: the default and one day.
DaysToKeep == {1, 365}

\* An operation is called when none is running.
CanCall == pc \in {"idle", "returned"} /\ frame.n < MaxOperations

\* A call to a collaborator, with the data passed or returned.
Call(fn, data) == [fn |-> fn, data |-> data, success |-> TRUE]

\* The try block of an operation without its `except Exception`: what it
\* raises leaves the operation.
Handled_Reraised(outcome) == outcome

\* `except Exception as e: ... return False` around the body of an
\* operation.
Handled(outcome) == IF outcome.kind = "raise" THEN Return(FALSE) ELSE outcome

\* The body of the operation op ends with `outcome`, a return or an
\* exception, before it reaches _update_google_sheets.
ReturnsEarly(op, outcome, m, log) ==
    /\ result' = Handled(outcome)
    /\ pc' = "returned"
    /\ manager' = m
    /\ frame' = [NoFrame EXCEPT !.op = op, !.n = frame.n + 1, !.before = sheets]
    /\ calls' = log
    /\ UNCHANGED <<problems, topic_mapping, today, sheets>>

\* The operation op calls generate_analytics(problems_data) and then
\* _update_google_sheets(problems_data, analytics_data).
GoesToUpdate(op, problems_data, new_problems, log) ==
    /\ result' = NoResult
    /\ pc' = "update_problems"
    /\ frame' = [op |-> op, n |-> frame.n + 1, problems_data |-> problems_data,
                 new_problems |-> new_problems,
                 analytics_data |-> generate_analytics(problems_data),
                 before |-> sheets]
    /\ calls' = Append(log, Call("generate_analytics", problems_data))
    /\ UNCHANGED <<problems, topic_mapping, today, sheets, manager>>

\* all(connection_results.values()) with any() in its place.
AllConnected_Any(leetcode_ok, google_sheets_ok) == leetcode_ok \/ google_sheets_ok

\* all(connection_results.values()) for the results of test_connections
AllConnected(leetcode_ok, google_sheets_ok) == leetcode_ok /\ google_sheets_ok

\* A call to a collaborator that raised.
Raised(fn) == [fn |-> fn, data |-> <<>>, success |-> FALSE]

\* _fetch_leetcode_data as a call of the log: get_all_solved_problems
\* returned problems_data, or it raised and the list is [].
Fetch(fetched, problems_data) ==
    [fn |-> "_fetch_leetcode_data", data |-> problems_data, success |-> fetched]

\* sync_all_data up to its call of _update_google_sheets.
SyncAllData ==
    /\ CanCall
    /\ \E leetcode_ok, google_sheets_ok, fetched \in BOOLEAN :
       \E problems_data \in {IF fetched THEN problems ELSE <<>>} :
       \E validated_problems \in {validate_problem_data(problems_data)} :
       \E tested \in {<<Call("test_connections", <<leetcode_ok, google_sheets_ok>>)>>} :
       \E fetch \in {Append(tested, Fetch(fetched, problems_data))} :
            IF ~AllConnected(leetcode_ok, google_sheets_ok)
            THEN ReturnsEarly("sync_all_data", Return(FALSE), manager, tested)
            ELSE IF problems_data = <<>>
            THEN ReturnsEarly("sync_all_data", Return(FALSE), manager, fetch)
            ELSE IF validated_problems.kind = "raise"
            THEN ReturnsEarly("sync_all_data", validated_problems, SyncFailed(manager),
                              Append(fetch, Raised("validate_problem_data")))
            ELSE IF validated_problems.value = <<>>
            THEN ReturnsEarly("sync_all_data", Return(FALSE), manager,
                              Append(fetch, Call("validate_problem_data", <<>>)))
            ELSE GoesToUpdate("sync_all_data", validated_problems.value,
                              validated_problems.value,
                              Append(fetch, Call("validate_problem_data",
                                                 validated_problems.value)))

\* incremental_sync up to its call of _update_google_sheets.
IncrementalSync ==
    /\ CanCall
    /\ \E readable, fetched \in BOOLEAN :
       \E existing_problems \in {get_existing_problems(readable)} :
       \E all_problems \in {IF fetched THEN PlainProblems(problems) ELSE <<>>} :
       \E new_problems \in {NewProblems(all_problems,
                                        {p.title : p \in Range(existing_problems)})} :
       \E fetch \in {<<Call("get_existing_problems", existing_problems),
                        Fetch(fetched, all_problems)>>} :
            IF all_problems = <<>>
            THEN ReturnsEarly("incremental_sync", Return(FALSE), manager, fetch)
            ELSE IF new_problems = <<>>
            THEN ReturnsEarly("incremental_sync", Return(TRUE), manager, fetch)
            ELSE GoesToUpdate("incremental_sync", existing_problems \o new_problems,
                              new_problems, fetch)

\* backup_data(backup_path): the rows of the Problems sheet go to the
\* backup file, unless the file cannot be written.
BackupData ==
    /\ CanCall
    /\ \E readable, writable \in BOOLEAN :
       \E problems_data \in {get_existing_problems(readable)} :
            IF writable
            THEN ReturnsEarly("backup_data", Return(TRUE), manager,
                              <<Call("get_existing_problems", problems_data),
                                Call("json.dump", problems_data)>>)
            ELSE ReturnsEarly("backup_data", Raise("OSError"), manager,
                              <<Call("get_existing_problems", problems_data),
                                Raised("open")>>)

\* restore_data(backup_path) up to its call of _update_google_sheets; the
\* backup file is unreadable, or holds no problems, or the problems LeetCode
\* reports.
RestoreData ==
    /\ CanCall
    /\ \E readable \in BOOLEAN, problems_data \in {<<>>, PlainProblems(problems)} :
        IF ~readable
        THEN ReturnsEarly("restore_data", Raise("OSError"), manager, <<Raised("open")>>)
        ELSE IF problems_data = <<>>
        THEN ReturnsEarly("restore_data", Return(FALSE), manager,
                          <<Call("json.load", problems_data)>>)
        ELSE GoesToUpdate("restore_data", problems_data, <<>>,
                          <<Call("json.load", problems_data)>>)

\* cleanup_old_data(days_to_keep) up to its call of _update_google_sheets.
CleanupOldData ==
    /\ CanCall
    /\ \E readable \in BOOLEAN, days_to_keep \in DaysToKeep :
       \E problems_data \in {get_existing_problems(readable)} :
       \E recent_problems \in {RecentProblems(problems_data, strftime(today - days_to_keep))} :
       \E log \in {<<Call("cleanup_old_data", days_to_keep),
                     Call("get_existing_problems", problems_data)>>} :
            IF Len(recent_problems) < Len(problems_data)
            THEN GoesToUpdate("cleanup_old_data", recent_problems, <<>>, log)
            ELSE ReturnsEarly("cleanup_old_data", Return(TRUE), manager, log)

\* One update of _update_google_sheets and what follows it: the next update,
\* or the return of _update_google_sheets and the rest of the operation
\* that called it.
UpdateSheet(name, fn, data, rows, next) ==
    \E outcome \in UpdateOutcomes(name, rows) :
    \E success \in {outcome = "ok"} :
    \E goes_to \in {AfterUpdate(success, next)} :
            /\ sheets' = [sheets EXCEPT ![name] = SheetAfter(@, rows, outcome)]
            /\ calls' = Append(calls, [fn |-> fn, data |-> data, success |-> success])
            /\ IF goes_to \in {"return True", "return False"}
               THEN /\ result' = Return(goes_to = "return True")
                    /\ pc' = "returned"
                    /\ manager' = ManagerAfter(manager, frame, goes_to = "return True", today)
               ELSE /\ pc' = goes_to
                    /\ UNCHANGED <<result, manager>>
            /\ UNCHANGED <<problems, topic_mapping, today, frame>>

\* problems_success = self.sheets_client.update_problems_sheet(problems_data)
UpdateProblemsSheet ==
    /\ pc = "update_problems"
    /\ UpdateSheet("Problems", "update_problems_sheet", frame.problems_data,
                   ProblemRows(frame.problems_data, today), "update_analytics")

\* analytics_success = self.sheets_client.update_analytics_sheet(topic_analytics)
UpdateAnalyticsSheet ==
    /\ pc = "update_analytics"
    /\ UpdateSheet("Analytics", "update_analytics_sheet",
                   Get(frame.analytics_data, "topic_analytics", <<>>),
                   Get(frame.analytics_data, "topic_analytics", <<>>), "update_progress")

\* progress_success = self.sheets_client.update_progress_sheet(progress_data)
UpdateProgressSheet ==
    /\ pc = "update_progress"
    /\ UpdateSheet("Progress", "update_progress_sheet",
                   Get(frame.analytics_data, "progress_data", <<>>),
                   Get(frame.analytics_data, "progress_data", <<>>), "return True")

NextManager ==
    \/ SyncAllData
    \/ IncrementalSync
    \/ BackupData
    \/ RestoreData
    \/ CleanupOldData
    \/ UpdateProblemsSheet
    \/ UpdateAnalyticsSheet
    \/ UpdateProgressSheet

SpecManager == InitManager /\ [][NextManager]_vars

\* A submission whose title the API left empty.
Untitled == Solved(<<>>, S_Easy, <<T_Array>>, D_0101)

\* A manager that is only asked for full syncs, with LeetCode also
\* reporting a problem without a title.
InitFullSync ==
    /\ problems \in SeqsUpTo(RemoteProblems \cup {Untitled}, MaxRemote)
    /\ topic_mapping = << <<T_DP, T_DynamicProgramming>> >>
    /\ today = ToOrdinal(2025, 1, 2)
    /\ result = NoResult
    /\ pc = "idle"
    /\ sheets \in FirstSheets
    /\ manager = NewManager
    /\ frame = [NoFrame EXCEPT !.before = sheets]
    /\ calls = <<>>

\* Between two operations LeetCode comes to report one more solved
\* problem.
RemoteChanges ==
    /\ pc = "returned"
    /\ frame.n < MaxOperations
    /\ Len(problems) < MaxRemote
    /\ \E solved_problem \in RemoteProblems \cup {Untitled} :
        problems' = Append(problems, solved_problem)
    /\ UNCHANGED <<topic_mapping, today, result, pc, sheets, manager, frame, calls>>

NextFullSync ==
    \/ SyncAllData
    \/ RemoteChanges
    \/ UpdateProblemsSheet
    \/ UpdateAnalyticsSheet
    \/ UpdateProgressSheet

SpecFullSync == InitFullSync /\ [][NextFullSync]_vars

-----------------------------------------------------------------------------
(* Claims about the operations of SyncManager, checked under SpecManager.  *)

\* The calls that take problem records in: the analytics and the writer of
\* the Problems sheet.
TakesRecords == {"generate_analytics", "update_problems_sheet"}

\* The records validate_problem_data returned to the running operation
\* before its i-th call.
ValidatedBefore(i) ==
    UNION {Range(calls[j].data) : j \in {k \in 1 .. (i - 1) : calls[k].fn = "validate_problem_data"}}

\* C17: every record an operation of SyncManager (full sync, incremental
\* sync, restore, cleanup) passes to generate_analytics or writes to the
\* Problems sheet was returned by validate_problem_data earlier in that
\* operation: no record reaches the analytics or the sheets past the
\* normalizer.
ClaimC17 ==
    \A i \in DOMAIN calls :
        calls[i].fn \in TakesRecords =>
            \A r \in Range(calls[i].data) : r \in ValidatedBefore(i)

\* The three updates of _update_google_sheets and the sheets they write.
UpdateOrder == <<"update_problems_sheet", "update_analytics_sheet", "update_progress_sheet">>

SheetOrder == <<"Problems", "Analytics", "Progress">>

\* The sheet updates the running operation has attempted so far.
Updates == SelectSeq(calls, LAMBDA c : c.fn \in Range(UpdateOrder))

\* C19: _update_google_sheets attempts the updates in the order Problems,
\* Analytics, Progress; an update is attempted only when every update
\* before it reported success, and a sheet whose update was not attempted
\* still holds what it held before the call; it returns only after a failed
\* update or after the third one, and it returns True exactly when all
\* three updates reported success.
TheoremC19 ==
    /\ Len(Updates) <= 3
    /\ \A i \in DOMAIN Updates :
        /\ Updates[i].fn = UpdateOrder[i]
        /\ i < Len(Updates) => Updates[i].success
    /\ \A i \in (Len(Updates) + 1) .. 3 : sheets[SheetOrder[i]] = frame.before[SheetOrder[i]]
    /\ (pc = "returned" /\ Updates # <<>>) =>
        /\ Len(Updates) = 3 \/ ~Updates[Len(Updates)].success
        /\ result = Return(Len(Updates) = 3 /\ \A i \in DOMAIN Updates : Updates[i].success)

\* The Problems sheet was rewritten, the update of the Analytics sheet
\* failed, and the call returned False without an attempt on the Progress
\* sheet, which holds other rows than the call would have written.
WitnessC19 ==
    /\ pc = "returned"
    /\ result = Return(FALSE)
    /\ Len(Updates) = 2
    /\ Updates[1].success
    /\ ~Updates[2].success
    /\ sheets.Problems # frame.before.Problems
    /\ sheets.Progress # Get(frame.analytics_data, "progress_data", <<>>)

\* C20: when sync_all_data or incremental_sync has returned False, the
\* three sheets hold what they held before the call, or all three hold the
\* rows of the call's records: no sheet is left rewritten or cleared beside
\* a sheet that is not.
ClaimC20 ==
    (pc = "returned" /\ frame.op \in {"sync_all_data", "incremental_sync"}
        /\ result = Return(FALSE)) =>
        \/ sheets = frame.before
        \/ sheets = SheetsOf(frame.problems_data, frame.analytics_data, today)

-----------------------------------------------------------------------------
(* Claims about sync_all_data, checked under SpecFullSync.                 *)

\* Both connection tests of the running sync_all_data passed.
ConnectionsPassed ==
    /\ calls # <<>>
    /\ calls[1].fn = "test_connections"
    /\ calls[1].data = <<TRUE, TRUE>>

\* The list _fetch_leetcode_data returned to the running sync_all_data,
\* empty when it was not called.
FetchedData ==
    IF Len(calls) >= 2 /\ calls[2].fn = "_fetch_leetcode_data" THEN calls[2].data ELSE <<>>

\* Validation of the fetched list returns a list without a record.
NothingValid ==
    /\ validate_problem_data(FetchedData).kind = "return"
    /\ validate_problem_data(FetchedData).value = <<>>

\* Validation of the fetched list returns a list with a record.
SomethingValid ==
    /\ validate_problem_data(FetchedData).kind = "return"
    /\ validate_problem_data(FetchedData).value # <<>>

\* C21: a sync_all_data that met a failed connection test, an empty fetch
\* or a validation that left no record has returned False, has attempted no
\* sheet update and has left the three sheets as they were; a sheet update
\* is attempted only after both connection tests passed and validation
\* returned a non-empty list, which is the list that is written.
TheoremC21 ==
    frame.op = "sync_all_data" =>
        /\ (pc = "returned" /\ (~ConnectionsPassed \/ FetchedData = <<>> \/ NothingValid)) =>
            /\ result = Return(FALSE)
            /\ Updates = <<>>
            /\ sheets = frame.before
        /\ Updates # <<>> =>
            /\ ConnectionsPassed
            /\ SomethingValid
            /\ frame.problems_data = validate_problem_data(FetchedData).value

\* Both tests passed and the fetch brought records, none of them with a
\* title: the sync returned False and the rows of an earlier sync are still
\* on the sheets.
WitnessC21 ==
    /\ frame.op = "sync_all_data"
    /\ pc = "returned"
    /\ ConnectionsPassed
    /\ FetchedData # <<>>
    /\ NothingValid
    /\ result = Return(FALSE)
    /\ sheets.Problems # <<>>

\* The running sync_all_data got an exception into its handler.
ExceptionHandled ==
    \E i \in DOMAIN calls : ~calls[i].success /\ calls[i].fn = "validate_problem_data"

\* All three sheet updates of the running operation reported success.
AllUpdated == Len(Updates) = 3 /\ \A i \in DOMAIN Updates : Updates[i].success

\* C22: a step of sync_all_data sets last_sync_time and overwrites
\* sync_stats (the counts of the validated list, updated_problems 0, errors
\* 0, last_sync) when it returns behind three successful sheet updates, and
\* then it returns True; a step that returns from the exception handler
\* only adds 1 to sync_stats.errors; every other step of it, a return of
\* False included, leaves last_sync_time and sync_stats as they are.
TheoremC22 ==
    [][frame'.op = "sync_all_data" /\ calls' # calls =>
        /\ manager' =
            IF pc' = "returned" /\ AllUpdated'
            THEN [last_sync_time |-> [type |-> "datetime", val |-> today],
                  sync_stats |-> [total_problems |-> Len(frame'.problems_data),
                                  new_problems |-> Len(frame'.problems_data),
                                  updated_problems |-> 0,
                                  errors |-> 0,
                                  last_sync |-> PyStr(strftime(today))]]
            ELSE IF pc' = "returned" /\ ExceptionHandled'
            THEN [last_sync_time |-> manager.last_sync_time,
                  sync_stats |-> [total_problems |-> manager.sync_stats.total_problems,
                                  new_problems |-> manager.sync_stats.new_problems,
                                  updated_problems |-> manager.sync_stats.updated_problems,
                                  errors |-> manager.sync_stats.errors + 1,
                                  last_sync |-> manager.sync_stats.last_sync]]
            ELSE manager
        /\ pc' = "returned" => result' = Return(AllUpdated')]_vars

\* A sync_all_data that came after a successful one has returned from the
\* exception handler: one error is counted, and the time and the counts of
\* the successful sync are still there.
WitnessC22 ==
    /\ frame.op = "sync_all_data"
    /\ pc = "returned"
    /\ ExceptionHandled
    /\ result = Return(FALSE)
    /\ manager.sync_stats.errors = 1
    /\ manager.sync_stats.total_problems > 0
    /\ manager.last_sync_time # PyNone

-----------------------------------------------------------------------------
(* Claims about the state of the manager and about incremental_sync,       *)
(* checked under SpecManager.                                              *)

\* C23: after any sequence of sync_all_data and incremental_sync calls,
\* last_sync_time is unset exactly when sync_stats.last_sync is unset, and
\* when both are set, last_sync is the formatted last_sync_time.
ClaimC23 ==
    /\ manager.last_sync_time = PyNone <=> manager.sync_stats.last_sync = PyNone
    /\ manager.last_sync_time # PyNone =>
        manager.sync_stats.last_sync = PyStr(strftime(manager.last_sync_time.val))

\* The running operation is an incremental_sync that has fetched this list.
IncrementalFetched ==
    IF frame.op = "incremental_sync" /\ Len(calls) >= 2 THEN calls[2].data ELSE <<>>

\* The titles of the rows the Problems sheet held before the call.
TitlesBefore == {frame.before.Problems[i].title : i \in DOMAIN frame.before.Problems}

\* A row with its Attempts cell as the int it reads as, where it reads as
\* one.
RowWith(row, attempts) ==
    IF attempts.kind = "return" THEN [row EXCEPT !.attempts = PyInt(attempts.value)] ELSE row

\* A row of the Problems sheet as a rewrite of the rows read is to leave it.
RowRead(row) == RowWith(row, py_int(row.attempts))

\* The rows incremental_sync is to write: the rows from before the call,
\* then the fetched problems with a title no row has.
MergedRows ==
    [i \in DOMAIN frame.before.Problems |-> RowRead(frame.before.Problems[i])]
    \o ProblemRows(SelectSeq(IncrementalFetched,
                             LAMBDA p : p.title \notin TitlesBefore), today)

\* C24: an incremental_sync that rewrote the Problems sheet wrote the rows
\* from before the call in their order, followed by the fetched problems
\* whose title no existing row has; when no fetched problem has a new title
\* it returns True, writes no sheet and leaves sync_stats alone; when the
\* fetch brought nothing it returns False and writes no sheet.
ClaimC24 ==
    (frame.op = "incremental_sync" /\ pc = "returned") =>
        /\ (Updates # <<>> /\ Updates[1].success) => sheets.Problems = MergedRows
        /\ IncrementalFetched = <<>> =>
            result = Return(FALSE) /\ Updates = <<>> /\ sheets = frame.before
        /\ (IncrementalFetched # <<>>
            /\ \A i \in DOMAIN IncrementalFetched : IncrementalFetched[i].title \in TitlesBefore) =>
                /\ result = Return(TRUE)
                /\ Updates = <<>>
                /\ sheets = frame.before

\* No two rows of a Problems sheet have the same title.
OneRowPerTitle(rows) ==
    \A i, j \in DOMAIN rows : rows[i].title = rows[j].title => i = j

\* C25: a successful incremental_sync on a Problems sheet with at most one
\* row per title leaves at most one row per title, whatever the fetch
\* returned.
ClaimC25 ==
    (frame.op = "incremental_sync" /\ pc = "returned" /\ result = Return(TRUE)
        /\ OneRowPerTitle(frame.before.Problems)) =>
        OneRowPerTitle(sheets.Problems)


\* ---------------------------------------------------------------------
\* Claims about exceptions, checked under SpecManager
\* ---------------------------------------------------------------------

\* A step of the running operation raised: a call of the log that did not
\* succeed.
StepRaised == \E i \in DOMAIN calls : ~calls[i].success

\* C26: no operation of the manager lets an exception escape: an operation
\* that has returned has returned a boolean, and it has returned False
\* whenever one of its steps raised.
TheoremC26 ==
    pc = "returned" =>
        /\ result \in {Return(TRUE), Return(FALSE)}
        /\ StepRaised => result = Return(FALSE)

\* validate_problem_data raised inside sync_all_data, which returned False.
WitnessC26 ==
    /\ pc = "returned"
    /\ frame.op = "sync_all_data"
    /\ \E i \in DOMAIN calls : ~calls[i].success /\ calls[i].fn = "validate_problem_data"
    /\ result = Return(FALSE)


\* ---------------------------------------------------------------------
\* cleanup_old_data after a full sync
\* ---------------------------------------------------------------------

D_2024_1_2 == <<"2", "0", "2", "4", "-", "1", "-", "2">>
D_2024_01_02 == <<"2", "0", "2", "4", "-", "0", "1", "-", "0", "2">>

\* What LeetCode reports before a cleanup: a problem of three days ago,
\* the same problem of a year and a day ago with the date written without
\* and with zero padding, and a problem without a date.
CleanupRemote ==
    {Solved(T_A, S_Easy, <<T_Array>>, D_1230),
     Solved(T_B, S_Easy, <<T_Array>>, D_2024_1_2),
     Solved(T_B, S_Easy, <<T_Array>>, D_2024_01_02),
     Solved(T_A, S_Easy, <<T_Array>>, <<>>)}

\* A new manager over the sheets a full sync of problem A and an edit of its
\* Attempts cell left, or over empty sheets.
InitCleanup ==
    /\ problems \in SeqsUpTo(CleanupRemote, MaxRemote)
    /\ topic_mapping = << <<T_DP, T_DynamicProgramming>> >>
    /\ today = ToOrdinal(2025, 1, 2)
    /\ result = NoResult
    /\ pc = "idle"
    /\ sheets \in EditedSheets(AttemptsCells)
    /\ manager = NewManager
    /\ frame = [NoFrame EXCEPT !.before = sheets]
    /\ calls = <<>>

\* Full syncs and cleanups, one after the other.
NextCleanup ==
    \/ SyncAllData
    \/ CleanupOldData
    \/ UpdateProblemsSheet
    \/ UpdateAnalyticsSheet
    \/ UpdateProgressSheet

SpecCleanup == InitCleanup /\ [][NextCleanup]_vars

\* ---------------------------------------------------------------------
\* Claims about cleanup_old_data, checked under SpecCleanup
\* ---------------------------------------------------------------------

\* The date written in a row is a date that is not earlier than the day
\* `cutoff`.
NotEarlier(date_solved, cutoff) ==
    /\ date_solved # <<>>
    /\ strptime(date_solved).kind = "return"
    /\ LET d == strptime(date_solved).value
       IN  ToOrdinal(d.year, d.month, d.day) >= cutoff

\* The rows a cleanup has to keep.
KeptRows(rows, days_to_keep) ==
    SelectSeq(rows, LAMBDA row : NotEarlier(row.date_solved, today - days_to_keep))

\* cleanup_old_data has returned and had read the rows of the Problems
\* sheet as they were.
CleanedUp ==
    /\ pc = "returned"
    /\ frame.op = "cleanup_old_data"
    /\ ExistingProblems(frame.before.Problems) = Return(calls[2].data)

\* C27: cleanup_old_data keeps exactly the rows whose date_solved is
\* non-empty and not earlier than today minus days_to_keep: when no row
\* is to be removed it returns True without an update, otherwise it runs
\* the updates on the kept rows only, and the Problems sheet holds exactly
\* the kept rows when it returns True.
ClaimC27 ==
    CleanedUp =>
        LET kept == KeptRows(frame.before.Problems, calls[1].data)
        IN  IF kept = frame.before.Problems
            THEN result = Return(TRUE) /\ Updates = <<>> /\ sheets = frame.before
            ELSE /\ Updates # <<>>
                 /\ Return(Updates[1].data) = ExistingProblems(kept)
                 /\ result = Return(TRUE) =>
                        sheets.Problems = [i \in DOMAIN kept |-> RowRead(kept[i])]


\* ---------------------------------------------------------------------
\* LeetCodeClient._make_graphql_request
\* ---------------------------------------------------------------------

PyDict(d) == [type |-> "dict", val |-> d]

\* Bodies of a response.
B_Data == <<"{", "\"", "d", "a", "t", "a", "\"", ":", " ", "1", "}">>
B_NoData == <<"{", "\"", "d", "a", "t", "a", "\"", ":", " ", "n", "u", "l", "l", "}">>
B_Errors == <<"{", "\"", "e", "r", "r", "o", "r", "s", "\"", ":", " ", "[", "]", "}">>
B_Object == <<"{", "}">>
B_Array == <<"[", "]">>
B_Null == <<"n", "u", "l", "l">>
B_Html == <<" ", "<", "h", "t", "m", "l", ">">>
B_HtmlLine == <<"\n", "<", "h", "t", "m", "l", ">">>
B_Text == <<"o", "o", "p", "s">>
B_Blank == <<" ", "\n">>
B_String == <<"\"", "x", "\"">>
B_ErrorsString == <<"\"", "n", "o", " ", "e", "r", "r", "o", "r", "s", "\"">>
B_ErrorsArray == <<"[", "\"", "e", "r", "r", "o", "r", "s", "\"", "]">>
B_Number == <<"5">>
B_ObjectLine == <<"\n", "{", "}">>

S_errors == <<"e", "r", "r", "o", "r", "s">>

\* response.json() on these bodies.
json_loads(text) ==
    CASE text = B_Data -> Return(PyDict([data |-> PyInt(1)]))
      [] text = B_NoData -> Return(PyDict([data |-> PyNone]))
      [] text = B_Errors -> Return(PyDict([errors |-> PyList(<<>>)]))
      [] text = B_Object -> Return(PyDict(<<>>))
      [] text = B_ObjectLine -> Return(PyDict(<<>>))
      [] text = B_Array -> Return(PyList(<<>>))
      [] text = B_ErrorsArray -> Return(PyList(<<PyStr(S_errors)>>))
      [] text = B_String -> Return(PyStr(<<"x">>))
      [] text = B_ErrorsString -> Return(PyStr(<<"n", "o", " ">> \o S_errors))
      [] text = B_Number -> Return(PyInt(5))
      [] text = B_Null -> Return(PyNone)
      [] OTHER -> Raise("JSONDecodeError")

Bodies ==
    {B_Data, B_NoData, B_Errors, B_Object, B_ObjectLine, B_Array, B_ErrorsArray,
     B_String, B_ErrorsString, B_Number, B_Null, B_Html, B_HtmlLine, B_Text, B_Blank}

\* What session.post(...) can end with: a response with a status and a
\* body, or a RequestException.
Responses ==
    {[status_code |-> 200, text |-> t] : t \in Bodies}
    \cup {[status_code |-> 500, text |-> B_Text], [status_code |-> 429, text |-> B_Data]}
    \cup {Raise("RequestException")}

\* The largest `retries` a request is made with.
MaxRetries == 3

RECURSIVE Pow2(_)
\* 2 ** attempt
Pow2(n) == IF n = 0 THEN 1 ELSE 2 * Pow2(n - 1)

\* 'errors' in data: a key of a dict, an element of a list, a substring of a
\* str; a TypeError for a value that is no container.
HasErrors(data) ==
    CASE data.type = "dict" -> Return("errors" \in DOMAIN data.val)
      [] data.type = "list" -> Return(PyStr(S_errors) \in Range(data.val))
      [] data.type = "str" -> Return(contains(data.val, S_errors))
      [] OTHER -> Raise("TypeError")

\* data['errors'], evaluated for the log line once 'errors' is in data: the
\* value of the key in a dict, a TypeError for the str index of a list or a
\* str.
ErrorsOf(data) ==
    IF data.type = "dict" THEN Return(data.val.errors) ELSE Raise("TypeError")

\* data.get('data'): dict.get; a list and a str have no attribute get.
DataOf(data) ==
    IF data.type = "dict" THEN Return(Get(data.val, "data", PyNone))
    ELSE Raise("AttributeError")

\* The body of `if response.status_code == 200: try: ...` for a body that
\* parsed: None on GraphQL errors, else data.get('data').
Answer(data) ==
    IF HasErrors(data).kind = "raise" THEN HasErrors(data)
    ELSE IF HasErrors(data).value
    THEN IF ErrorsOf(data).kind = "raise" THEN ErrorsOf(data) ELSE Return(PyNone)
    ELSE DataOf(data)

\* response.text.strip().startswith('<')
IsHtml(text) == strip(text) # <<>> /\ Head(strip(text)) = "<"

InitRequest ==
    /\ problems = <<>>
    /\ topic_mapping = <<>>
    /\ today = ToOrdinal(2025, 1, 2)
    /\ result = NoResult
    /\ pc = "idle"
    /\ frame = [retries |-> 0, attempt |-> 0]
    /\ sheets = NoSheets
    /\ manager = <<>>
    /\ calls = <<>>

\* _make_graphql_request(query, variables, retries) is called.
MakeGraphqlRequest ==
    /\ pc = "idle"
    /\ \E retries \in 0 .. MaxRetries : frame' = [retries |-> retries, attempt |-> 0]
    /\ pc' = "for"
    /\ UNCHANGED <<problems, topic_mapping, today, result, sheets, manager, calls>>

Post(response) == [fn |-> "post", data |-> response, success |-> response \in Responses \ {Raise("RequestException")}]
Sleep(seconds) == [fn |-> "sleep", data |-> seconds, success |-> TRUE]

\* One iteration of `for attempt in range(retries)` up to the backoff:
\* the POST and what is done with its response.
Attempt ==
    /\ pc = "for"
    /\ frame.attempt < frame.retries
    /\ \E response \in Responses :
       \E posted \in {Append(calls, Post(response))} :
            IF response = Raise("RequestException") \/ response.status_code # 200
            THEN /\ pc' = "backoff"
                 /\ calls' = posted
                 /\ UNCHANGED <<result, frame>>
            ELSE IF json_loads(response.text).kind = "raise"
            THEN \* except json.JSONDecodeError: ...; continue
                 /\ pc' = "for"
                 /\ calls' = IF IsHtml(response.text) THEN Append(posted, Sleep(5)) ELSE posted
                 /\ frame' = [frame EXCEPT !.attempt = @ + 1]
                 /\ UNCHANGED result
            ELSE /\ pc' = "returned"
                 /\ calls' = posted
                 /\ result' = Answer(json_loads(response.text).value)
                 /\ UNCHANGED frame
    /\ UNCHANGED <<problems, topic_mapping, today, sheets, manager>>

\* if attempt < retries - 1: time.sleep(2 ** attempt), then the next
\* iteration.
Backoff ==
    /\ pc = "backoff"
    /\ calls' = IF frame.attempt < frame.retries - 1
                THEN Append(calls, Sleep(Pow2(frame.attempt))) ELSE calls
    /\ frame' = [frame EXCEPT !.attempt = @ + 1]
    /\ pc' = "for"
    /\ UNCHANGED <<problems, topic_mapping, today, result, sheets, manager>>

\* The loop has run `retries` times: return None.
Exhausted ==
    /\ pc = "for"
    /\ frame.attempt >= frame.retries
    /\ result' = Return(PyNone)
    /\ pc' = "returned"
    /\ UNCHANGED <<problems, topic_mapping, today, sheets, manager, frame, calls>>

NextRequest == MakeGraphqlRequest \/ Attempt \/ Backoff \/ Exhausted

SpecRequest == InitRequest /\ [][NextRequest]_vars

\* ---------------------------------------------------------------------
\* Claims about _make_graphql_request, checked under SpecRequest
\* ---------------------------------------------------------------------

\* The POSTs of the request so far.
Posts == SelectSeq(calls, LAMBDA c : c.fn = "post")

\* The response with status 200 and a body that parses as JSON.
Parsable(response) ==
    /\ response # Raise("RequestException")
    /\ response.status_code = 200
    /\ json_loads(response.text).kind = "return"

\* C28: _make_graphql_request makes at most `retries` POSTs; a POST
\* answered with status 200 and a body that parses as JSON is the last one,
\* and the request then returns None when the body carries GraphQL errors
\* and the body's data otherwise; after any other answer it goes on, and it
\* returns None once `retries` POSTs have failed.
ClaimC28 ==
    /\ Len(Posts) <= frame.retries
    /\ \A i \in 1 .. Len(Posts) - 1 : ~Parsable(Posts[i].data)
    /\ pc = "returned" =>
        IF Posts # <<>> /\ Parsable(Posts[Len(Posts)].data)
        THEN LET data == json_loads(Posts[Len(Posts)].data.text).value
             IN  result = IF data.type # "dict" \/ "errors" \in DOMAIN data.val
                          THEN Return(PyNone)
                          ELSE Return(Get(data.val, "data", PyNone))
        ELSE Len(Posts) = frame.retries /\ result = Return(PyNone)


\* ---------------------------------------------------------------------
\* LeetCodeClient.get_all_solved_problems
\* ---------------------------------------------------------------------

\* The largest number of submissions get_user_submissions returns.
MaxSubmissions == 6

\* ThreadPoolExecutor(max_workers=5)
max_workers == 5

S_Accepted == <<"A", "c", "c", "e", "p", "t", "e", "d">>
S_WrongAnswer == <<"W", "r", "o", "n", "g", " ", "A", "n", "s", "w", "e", "r">>

\* The i-th entry of recentSubmissionList: accepted, twelve hours after
\* the entry before it, the first at 2025-01-02 00:00:00 UTC.
RecentSubmission(i) ==
    [title |-> <<"T", Digits[i + 1]>>,
     titleSlug |-> <<"s", Digits[i + 1]>>,
     timestamp |-> PyStr(DecStr(1735732800 + 43200 * i)),
     statusDisplay |-> S_Accepted,
     lang |-> <<"c", "p", "p">>,
     runtime |-> <<"4", " ", "m", "s">>,
     memory |-> <<"9", " ", "M", "B">>,
     submissionId |-> <<Digits[i + 1]>>]

\* datetime.fromtimestamp(t).strftime('%Y-%m-%d') where the local time is
\* utcoffset seconds ahead of UTC.
DateOfTimestamp(t, utcoffset) == strftime(ToOrdinal(1970, 1, 1) + ((t + utcoffset) \div 86400))

\* The dict get_user_submissions appends for an accepted entry whose
\* timestamp int() reads as t.
Submission(submission, t, utcoffset) ==
    [title |-> Get(submission, "title", <<>>),
     title_slug |-> Get(submission, "titleSlug", <<>>),
     timestamp |-> Get(submission, "timestamp", PyStr(<<>>)),
     status |-> Get(submission, "statusDisplay", <<>>),
     language |-> Get(submission, "lang", <<>>),
     runtime |-> Get(submission, "runtime", <<>>),
     memory |-> Get(submission, "memory", <<>>),
     submission_id |-> Get(submission, "submissionId", <<>>),
     date_solved |-> DateOfTimestamp(t, utcoffset)]

\* int(submission.get('timestamp', 0))
TimestampOf(submission) == py_int(Get(submission, "timestamp", PyInt(0)))

K_recentSubmissionList == <<"r", "e", "c", "e", "n", "t", "S", "u", "b", "m", "i", "s", "s", "i", "o", "n", "L", "i", "s", "t">>
K_userProfileUserCalendar == <<"u", "s", "e", "r", "P", "r", "o", "f", "i", "l", "e", "U", "s", "e", "r", "C", "a", "l", "e", "n", "d", "a", "r">>

\* `key in data` for what the request gave, the key as the name of a field
\* and as a str: a key of a dict, an element of a list, a part of a str.
In(key, chars, data) ==
    CASE data.type = "dict" -> Return(key \in DOMAIN data.val)
      [] data.type = "list" ->
            Return(\E i \in DOMAIN data.val :
                        data.val[i].type = "str" /\ data.val[i].val = chars)
      [] data.type = "str" -> Return(contains(data.val, chars))
      [] OTHER -> Raise("TypeError")

\* data[key] with a str key: the value in a dict, a TypeError on a list or
\* a str.
Item(key, data) ==
    IF data.type = "dict" THEN Return(data.val[key]) ELSE Raise("TypeError")

\* The body of `for submission in data['recentSubmissionList']` for one
\* entry: the dict it appends for an accepted entry, nothing for another
\* entry, or the exception of .get on what is no dict or of int().
ForSubmission(submission, utcoffset) ==
    IF submission.type # "dict" THEN Raise("AttributeError")
    ELSE IF Get(submission.val, "statusDisplay", <<>>) # S_Accepted THEN Return(<<>>)
    ELSE IF TimestampOf(submission.val).kind = "raise" THEN TimestampOf(submission.val)
    ELSE Return(<<Submission(submission.val, TimestampOf(submission.val).value, utcoffset)>>)

RECURSIVE Submissions(_, _)
\* The loop over the entries of a list: the submissions, or the exception
\* of the first entry that raises.
Submissions(entries, utcoffset) ==
    IF entries = <<>> THEN Return(<<>>)
    ELSE IF ForSubmission(Head(entries), utcoffset).kind = "raise"
    THEN ForSubmission(Head(entries), utcoffset)
    ELSE IF Submissions(Tail(entries), utcoffset).kind = "raise"
    THEN Submissions(Tail(entries), utcoffset)
    ELSE Return(ForSubmission(Head(entries), utcoffset).value
                \o Submissions(Tail(entries), utcoffset).value)

\* `for submission in list`: the entries of a list; the characters of a
\* str and the keys of a dict have no .get; anything else is not iterable.
RecentSubmissions(list, utcoffset) ==
    CASE list.type = "list" -> Submissions(list.val, utcoffset)
      [] list.type = "str" ->
            IF list.val = <<>> THEN Return(<<>>) ELSE Raise("AttributeError")
      [] list.type = "dict" ->
            IF DOMAIN list.val = {} THEN Return(<<>>) ELSE Raise("AttributeError")
      [] OTHER -> Raise("TypeError")

\* "Process recent submissions" of get_user_submissions on truthy data.
Recent(data, utcoffset) ==
    IF In("recentSubmissionList", K_recentSubmissionList, data).kind = "raise"
    THEN In("recentSubmissionList", K_recentSubmissionList, data)
    ELSE IF ~In("recentSubmissionList", K_recentSubmissionList, data).value
    THEN Return(<<>>)
    ELSE IF Item("recentSubmissionList", data).kind = "raise"
    THEN Item("recentSubmissionList", data)
    ELSE RecentSubmissions(Item("recentSubmissionList", data).value, utcoffset)

\* Submission calendars: two submissions on the day of the first entry and
\* none twelve hours before; an empty one; one that is no JSON; an array;
\* one whose key is no timestamp; one whose count is a str.
C_Counts ==
    <<"{", "\"">> \o DecStr(1735776000) \o <<"\"", ":", " ", "2", ",", " ", "\"">>
        \o DecStr(1735732800) \o <<"\"", ":", " ", "0", "}">>
C_Empty == <<"{", "}">>
C_Text == <<"o", "o", "p", "s">>
C_Array == <<"[", "]">>
C_NoTimestamp == <<"{", "\"", "x", "\"", ":", " ", "1", "}">>
C_TextCount == <<"{", "\"">> \o DecStr(1735776000) \o <<"\"", ":", " ", "\"", "2", "\"", "}">>

\* json.loads(calendar_data) on these calendars; an object is written as
\* its items in their order.
calendar_loads(calendar_data) ==
    CASE calendar_data = C_Counts ->
            Return(PyDict(<< <<PyStr(DecStr(1735776000)), PyInt(2)>>,
                             <<PyStr(DecStr(1735732800)), PyInt(0)>> >>))
      [] calendar_data = C_Empty -> Return(PyDict(<<>>))
      [] calendar_data = C_Array -> Return(PyList(<<>>))
      [] calendar_data = C_NoTimestamp -> Return(PyDict(<< <<PyStr(<<"x">>), PyInt(1)>> >>))
      [] calendar_data = C_TextCount ->
            Return(PyDict(<< <<PyStr(DecStr(1735776000)), PyStr(<<"2">>)>> >>))
      [] OTHER -> Raise("JSONDecodeError")

\* The first submission solved on `date`, 0 when there is none.
FirstOn(submissions, date) ==
    IF \E i \in DOMAIN submissions : submissions[i].date_solved = date
    THEN CHOOSE i \in DOMAIN submissions :
            /\ submissions[i].date_solved = date
            /\ \A j \in 1 .. (i - 1) : submissions[j].date_solved # date
    ELSE 0

\* `count > 0`, a TypeError when count is no number.
Positive(count) ==
    CASE count.type \in {"int", "float"} -> Return(count.val > 0)
      [] count.type = "bool" -> Return(count.val)
      [] OTHER -> Raise("TypeError")

RECURSIVE WithDailyCounts(_, _, _)
\* The loop over calendar.items(): a day with a count above 0 sets
\* daily_count on the first submission of that day. A count that is no
\* number and a key int() does not read raise.
WithDailyCounts(submissions, items, utcoffset) ==
    IF items = <<>> THEN Return(submissions)
    ELSE IF Positive(items[1][2]).kind = "raise" THEN Positive(items[1][2])
    ELSE IF ~Positive(items[1][2]).value
    THEN WithDailyCounts(submissions, Tail(items), utcoffset)
    ELSE IF py_int(items[1][1]).kind = "raise" THEN py_int(items[1][1])
    ELSE IF FirstOn(submissions, DateOfTimestamp(py_int(items[1][1]).value, utcoffset)) = 0
    THEN WithDailyCounts(submissions, Tail(items), utcoffset)
    ELSE WithDailyCounts(
            [submissions EXCEPT
                ![FirstOn(submissions, DateOfTimestamp(py_int(items[1][1]).value, utcoffset))] =
                    [daily_count |-> items[1][2].val] @@ @],
            Tail(items), utcoffset)

\* The try block of the calendar part for calendar_data: json.loads takes
\* a str only, a calendar that is no JSON is only logged, and .items() is
\* asked of what was loaded.
CalendarCounts(submissions, calendar_data, utcoffset) ==
    IF calendar_data.type # "str" THEN Raise("TypeError")
    ELSE IF calendar_loads(calendar_data.val).kind = "raise" THEN Return(submissions)
    ELSE IF calendar_loads(calendar_data.val).value.type # "dict" THEN Raise("AttributeError")
    ELSE WithDailyCounts(submissions, calendar_loads(calendar_data.val).value.val, utcoffset)

\* "Process submission calendar" of get_user_submissions: the calendar is
\* read when data holds a userProfileUserCalendar that is truthy, and .get
\* is asked of it whatever it is.
WithCalendar(submissions, data, utcoffset) ==
    IF In("userProfileUserCalendar", K_userProfileUserCalendar, data).kind = "raise"
    THEN In("userProfileUserCalendar", K_userProfileUserCalendar, data)
    ELSE IF ~In("userProfileUserCalendar", K_userProfileUserCalendar, data).value
    THEN Return(submissions)
    ELSE IF Item("userProfileUserCalendar", data).kind = "raise"
    THEN Item("userProfileUserCalendar", data)
    ELSE IF ~truthy(Item("userProfileUserCalendar", data).value)
    THEN Return(submissions)
    ELSE IF Item("userProfileUserCalendar", data).value.type # "dict"
    THEN Raise("AttributeError")
    ELSE CalendarCounts(submissions,
                        Get(Item("userProfileUserCalendar", data).value.val,
                            "submissionCalendar", PyStr(C_Empty)),
                        utcoffset)

\* get_user_submissions for what _make_graphql_request gave: its exception
\* goes up; [] for data that is falsy; else the submissions of the
\* accepted entries, with the daily counts.
get_user_submissions(answer, utcoffset) ==
    IF answer.kind = "raise" THEN answer
    ELSE IF ~truthy(answer.value) THEN Return(<<>>)
    ELSE IF Recent(answer.value, utcoffset).kind = "raise"
    THEN Recent(answer.value, utcoffset)
    ELSE WithCalendar(Recent(answer.value, utcoffset).value, answer.value, utcoffset)

\* The problem_details get_problem_details builds for the slug of a
\* submission when its request returned a question.
Details(title_slug) ==
    [problem_id |-> <<title_slug[2]>>,
     title |-> <<"D", title_slug[2]>>,
     title_slug |-> title_slug,
     difficulty |-> S_Easy,
     topics |-> <<T_Array>>,
     companies |-> <<>>,
     is_paid_only |-> FALSE,
     category |-> <<>>,
     acceptance_rate |-> 0,
     total_accepted |-> 0,
     total_submissions |-> 0]

\* get_problem_details(problem_slug) by the answer to its request: the
\* problem_details of a question, None when the request returned nothing,
\* or an exception that the request or the reading of the answer raised.
get_problem_details(title_slug, answer) ==
    CASE answer = "question" -> Return(Details(title_slug))
      [] answer = "none" -> Return(PyNone)
      [] OTHER -> Raise("Exception")

\* The answers the server of the runs gives to the request for the i-th
\* problem: nothing for the second and an exception for the third each
\* time, any of the three for the others.
QuestionAnswers(i) ==
    CASE i = 2 -> {"none"}
      [] i = 3 -> {"raise"}
      [] OTHER -> {"question", "none", "raise"}

\* solved_problem: the merge of a submission and its problem_details.
SolvedProblem(submission, problem_details) ==
    [title |-> Get(problem_details, "title", Get(submission, "title", <<>>)),
     problem_id |-> Get(problem_details, "problem_id", <<>>),
     title_slug |-> Get(problem_details, "title_slug", Get(submission, "title_slug", <<>>)),
     difficulty |-> Get(problem_details, "difficulty", <<>>),
     topics |-> Get(problem_details, "topics", <<>>),
     companies |-> Get(problem_details, "companies", <<>>),
     date_solved |-> Get(submission, "date_solved", <<>>),
     language |-> Get(submission, "language", <<>>),
     runtime |-> Get(submission, "runtime", <<>>),
     memory |-> Get(submission, "memory", <<>>),
     submission_id |-> Get(submission, "submission_id", <<>>),
     is_paid_only |-> Get(problem_details, "is_paid_only", FALSE),
     category |-> Get(problem_details, "category", <<>>),
     acceptance_rate |-> Get(problem_details, "acceptance_rate", 0),
     attempts |-> 1,
     status |-> S_Solved]

\* A future of the executor: queued, running in a worker, or done with
\* what get_problem_details returned or raised.
Queued == [kind |-> "queued"]
Running == [kind |-> "running"]
IsDone(future) == future.kind \in {"return", "raise"}

\* The futures the loop has not asked for their result yet.
Unseen(f) == {i \in DOMAIN f.seen : f.seen[i] = "unseen"}

\* The loop over the futures as they complete: a future that is done, or
\* any future when none is.
Awaited_AsCompleted(f) ==
    IF \E i \in Unseen(f) : IsDone(f.futures[i])
    THEN {i \in Unseen(f) : IsDone(f.futures[i])}
    ELSE Unseen(f)

\* `for future in future_to_slug`: the futures in the order of their
\* submission, so the next one is the first that was not asked yet.
Awaited(f) == {i \in Unseen(f) : \A j \in Unseen(f) : i <= j}

\* data as the request of get_user_submissions returns it: the entries,
\* and the calendar when there is one.
Data(entries, calendar) ==
    IF calendar = <<>>
    THEN PyDict([recentSubmissionList |-> PyList([i \in DOMAIN entries |-> PyDict(entries[i])])])
    ELSE PyDict([recentSubmissionList |-> PyList([i \in DOMAIN entries |-> PyDict(entries[i])]),
                 userProfileUserCalendar |-> calendar])

\* The calendars of an answer: none (written <<>>), null, a number, a
\* calendar whose submissionCalendar is null, and the submissionCalendar
\* texts.
Calendars ==
    {<<>>, PyNone, PyInt(1), PyDict([submissionCalendar |-> PyNone])}
    \cup {PyDict([submissionCalendar |-> PyStr(text)]) :
            text \in {C_Counts, C_Empty, C_Text, C_Array, C_NoTimestamp, C_TextCount}}

\* Short lists of entries: with an entry that was not accepted, with a
\* timestamp int() does not read, and with an entry without a timestamp.
ShortLists ==
    {<<RecentSubmission(1), [RecentSubmission(2) EXCEPT !.statusDisplay = S_WrongAnswer],
       RecentSubmission(3)>>,
     <<RecentSubmission(1), [RecentSubmission(2) EXCEPT !.timestamp = PyStr(<<"x">>)]>>,
     <<[k \in DOMAIN RecentSubmission(1) \ {"timestamp"} |-> RecentSubmission(1)[k]],
       RecentSubmission(2)>>}

\* The local times: UTC, five hours behind it, five and a half hours ahead.
UtcOffsets == {0, -18000, 19800}

\* Data that is no object, or whose recentSubmissionList is no list of
\* objects.
OtherData ==
    {PyNone, PyInt(1), PyDict(<<>>), PyList(<<>>), PyList(<<PyStr(<<"x">>)>>),
     PyList(<<PyStr(K_recentSubmissionList)>>), PyList(<<PyStr(K_userProfileUserCalendar)>>),
     PyStr(<<"a", "b", "c">>), PyStr(K_userProfileUserCalendar),
     PyDict([recentSubmissionList |-> PyNone]),
     PyDict([recentSubmissionList |-> PyList(<<PyDict(RecentSubmission(1)), PyStr(<<"x">>)>>)]),
     PyDict([userProfileUserCalendar |-> PyDict([submissionCalendar |-> PyStr(C_Counts)])])}

\* What get_all_solved_problems is run with: the answer to the request of
\* get_user_submissions, with the local time. The first n entries for
\* every n, in UTC; the short lists with every calendar and local time;
\* the other data; and a request that raised.
Answers ==
    {<<Return(Data([i \in 1 .. n |-> RecentSubmission(i)], <<>>)), 0>> : n \in 0 .. MaxSubmissions}
    \cup {<<Return(Data(entries, calendar)), utcoffset>> :
            entries \in ShortLists, calendar \in Calendars, utcoffset \in UtcOffsets}
    \cup {<<Return(data), 0>> : data \in OtherData}
    \cup {<<Raise("TypeError"), 0>>}

InitSolved ==
    /\ problems = <<>>
    /\ topic_mapping = <<>>
    /\ today = ToOrdinal(2025, 1, 2)
    /\ result = NoResult
    /\ pc = "idle"
    /\ \E answer \in Answers :
        frame = [data |-> answer[1], utcoffset |-> answer[2],
                 futures |-> <<>>, seen |-> <<>>, solved_problems |-> <<>>]
    /\ sheets = NoSheets
    /\ manager = <<>>
    /\ calls = <<>>

\* get_all_solved_problems up to the executor: get_user_submissions raises
\* and so does get_all_solved_problems, or it returns no submission and []
\* is returned, or the executor is created for the submissions.
GetAllSolvedProblems ==
    /\ pc = "idle"
    /\ \E submissions \in {get_user_submissions(frame.data, frame.utcoffset)} :
        IF submissions.kind = "raise"
        THEN /\ result' = submissions
             /\ pc' = "returned"
             /\ UNCHANGED problems
        ELSE IF submissions.value = <<>>
        THEN /\ result' = Return(<<>>)
             /\ pc' = "returned"
             /\ UNCHANGED problems
        ELSE /\ problems' = submissions.value
             /\ pc' = "submit"
             /\ UNCHANGED result
    /\ UNCHANGED <<topic_mapping, today, sheets, manager, frame, calls>>

\* One executor.submit(self.get_problem_details, sub['title_slug']) of the
\* dict comprehension; after the last one the loop over the futures
\* begins.
Submit ==
    /\ pc = "submit"
    /\ frame' = [frame EXCEPT !.futures = Append(@, Queued), !.seen = Append(@, "unseen")]
    /\ pc' = IF Len(frame.futures) + 1 = Len(problems) THEN "for" ELSE "submit"
    /\ UNCHANGED <<problems, topic_mapping, today, result, sheets, manager, calls>>

\* A free worker takes the oldest queued call of get_problem_details.
WorkerStarts ==
    /\ pc \in {"submit", "for"}
    /\ Cardinality({i \in DOMAIN frame.futures : frame.futures[i] = Running}) < max_workers
    /\ \E i \in DOMAIN frame.futures :
        /\ frame.futures[i] = Queued
        /\ \A j \in 1 .. i - 1 : frame.futures[j] # Queued
        /\ frame' = [frame EXCEPT !.futures[i] = Running]
    /\ UNCHANGED <<problems, topic_mapping, today, result, pc, sheets, manager, calls>>

\* A running call of get_problem_details returns or raises.
WorkerFinishes ==
    /\ pc \in {"submit", "for"}
    /\ \E i \in DOMAIN frame.futures :
        /\ frame.futures[i] = Running
        /\ \E answer \in QuestionAnswers(i) :
            frame' = [frame EXCEPT
                        !.futures[i] = get_problem_details(problems[i].title_slug, answer)]
    /\ UNCHANGED <<problems, topic_mapping, today, result, pc, sheets, manager, calls>>

\* future.result(timeout=10) of the awaited future when it is done: the
\* entry is appended when problem_details is truthy. The time.sleep(0.1)
\* after an append only lets the workers go on.
FutureResult ==
    /\ pc = "for"
    /\ \E i \in Awaited(frame) :
        /\ IsDone(frame.futures[i])
        /\ LET future == frame.futures[i]
               got == future.kind = "return" /\ future.value # PyNone
           IN  /\ frame' = [frame EXCEPT
                    !.seen[i] = IF got THEN "data"
                                ELSE IF future.kind = "return" THEN "nothing" ELSE "raised",
                    !.solved_problems = IF got
                                        THEN Append(@, SolvedProblem(problems[i], future.value))
                                        ELSE @]
    /\ UNCHANGED <<problems, topic_mapping, today, result, pc, sheets, manager, calls>>

\* future.result(timeout=10) of the awaited future raises TimeoutError:
\* the future was not done in time.
FutureTimeout ==
    /\ pc = "for"
    /\ \E i \in Awaited(frame) :
        /\ ~IsDone(frame.futures[i])
        /\ frame' = [frame EXCEPT !.seen[i] = "timeout"]
    /\ UNCHANGED <<problems, topic_mapping, today, result, pc, sheets, manager, calls>>

\* The end of the `with` block waits for every call, then
\* solved_problems is returned.
ReturnSolved ==
    /\ pc = "for"
    /\ Unseen(frame) = {}
    /\ \A i \in DOMAIN frame.futures : IsDone(frame.futures[i])
    /\ result' = Return(frame.solved_problems)
    /\ pc' = "returned"
    /\ UNCHANGED <<problems, topic_mapping, today, sheets, manager, frame, calls>>

NextSolved ==
    \/ GetAllSolvedProblems
    \/ Submit
    \/ WorkerStarts
    \/ WorkerFinishes
    \/ FutureResult
    \/ FutureTimeout
    \/ ReturnSolved

SpecSolved == InitSolved /\ [][NextSolved]_vars

\* ---------------------------------------------------------------------
\* Claims about get_all_solved_problems, checked under SpecSolved
\* ---------------------------------------------------------------------

RECURSIVE EntriesFrom(_)
\* The entries of the submissions i .. n whose request returned data to
\* the loop, in the order of the submissions, each made of its own
\* submission and its own details.
EntriesFrom(i) ==
    IF i > Len(problems) THEN <<>>
    ELSE IF frame.seen[i] = "data"
         THEN <<SolvedProblem(problems[i], Details(problems[i].title_slug))>> \o EntriesFrom(i + 1)
         ELSE EntriesFrom(i + 1)

\* C29: at most 5 calls of get_problem_details run at the same time, and
\* the list get_all_solved_problems returns holds, in the order of the
\* submissions and whatever the order the calls finished in, one entry for
\* each submission whose call gave data to the loop and none for a
\* submission whose call returned nothing, raised or timed out.
TheoremC29 ==
    /\ Cardinality({i \in DOMAIN frame.futures : frame.futures[i] = Running}) <= 5
    /\ pc = "returned" /\ problems # <<>> => result = Return(EntriesFrom(1))

\* Six submissions: the second call returned nothing, the third raised,
\* the fourth timed out, and the list holds the first, fifth and sixth,
\* each with the date of its own timestamp.
WitnessC29 ==
    /\ pc = "returned"
    /\ Len(problems) = 6
    /\ frame.seen = <<"data", "nothing", "raised", "timeout", "data", "data">>
    /\ Len(result.value) = 3
    /\ result.value[3].title_slug = problems[6].title_slug
    /\ result.value[1].date_solved = D_0102
    /\ result.value[3].date_solved = <<"2", "0", "2", "5", "-", "0", "1", "-", "0", "4">>


\* ---------------------------------------------------------------------
\* ConfigManager: the environment and the configuration file
\* ---------------------------------------------------------------------

\* Names of sections and keys.
K_leetcode == <<"l", "e", "e", "t", "c", "o", "d", "e">>
K_google_sheets == <<"g", "o", "o", "g", "l", "e", "_", "s", "h", "e", "e", "t", "s">>
K_sync == <<"s", "y", "n", "c">>
K_backup == <<"b", "a", "c", "k", "u", "p">>
K_username == <<"u", "s", "e", "r", "n", "a", "m", "e">>
K_session_id == <<"s", "e", "s", "s", "i", "o", "n", "_", "i", "d">>
K_csrf_token == <<"c", "s", "r", "f", "_", "t", "o", "k", "e", "n">>
K_spreadsheet_id == <<"s", "p", "r", "e", "a", "d", "s", "h", "e", "e", "t", "_", "i", "d">>
K_credentials_path == <<"c", "r", "e", "d", "e", "n", "t", "i", "a", "l", "s", "_", "p", "a", "t", "h">>
K_credentials_json == <<"c", "r", "e", "d", "e", "n", "t", "i", "a", "l", "s", "_", "j", "s", "o", "n">>
K_interval == <<"i", "n", "t", "e", "r", "v", "a", "l">>
K_log_level == <<"l", "o", "g", "_", "l", "e", "v", "e", "l">>
K_max_retries == <<"m", "a", "x", "_", "r", "e", "t", "r", "i", "e", "s">>
K_timeout == <<"t", "i", "m", "e", "o", "u", "t">>
K_enabled == <<"e", "n", "a", "b", "l", "e", "d">>
K_path == <<"p", "a", "t", "h">>
K_retention_days == <<"r", "e", "t", "e", "n", "t", "i", "o", "n", "_", "d", "a", "y", "s">>

\* Names of environment variables.
LEETCODE_USERNAME == <<"L", "E", "E", "T", "C", "O", "D", "E", "_", "U", "S", "E", "R", "N", "A", "M", "E">>
GOOGLE_SHEETS_ID == <<"G", "O", "O", "G", "L", "E", "_", "S", "H", "E", "E", "T", "S", "_", "I", "D">>
LOG_LEVEL == <<"L", "O", "G", "_", "L", "E", "V", "E", "L">>
GOOGLE_SHEETS_SPREADSHEET_ID == <<"G", "O", "O", "G", "L", "E", "_", "S", "H", "E", "E", "T", "S", "_", "S", "P", "R", "E", "A", "D", "S", "H", "E", "E", "T", "_", "I", "D">>
SYNC_LOG_LEVEL == <<"S", "Y", "N", "C", "_", "L", "O", "G", "_", "L", "E", "V", "E", "L">>
LEETCODE_SESSION_ID == <<"L", "E", "E", "T", "C", "O", "D", "E", "_", "S", "E", "S", "S", "I", "O", "N", "_", "I", "D">>
LEETCODE_CSRF_TOKEN == <<"L", "E", "E", "T", "C", "O", "D", "E", "_", "C", "S", "R", "F", "_", "T", "O", "K", "E", "N">>
GOOGLE_CREDENTIALS_PATH == <<"G", "O", "O", "G", "L", "E", "_", "C", "R", "E", "D", "E", "N", "T", "I", "A", "L", "S", "_", "P", "A", "T", "H">>
GOOGLE_CREDENTIALS_JSON == <<"G", "O", "O", "G", "L", "E", "_", "C", "R", "E", "D", "E", "N", "T", "I", "A", "L", "S", "_", "J", "S", "O", "N">>
SYNC_INTERVAL == <<"S", "Y", "N", "C", "_", "I", "N", "T", "E", "R", "V", "A", "L">>
MAX_RETRIES == <<"M", "A", "X", "_", "R", "E", "T", "R", "I", "E", "S">>
TIMEOUT == <<"T", "I", "M", "E", "O", "U", "T">>
BACKUP_ENABLED == <<"B", "A", "C", "K", "U", "P", "_", "E", "N", "A", "B", "L", "E", "D">>
BACKUP_PATH == <<"B", "A", "C", "K", "U", "P", "_", "P", "A", "T", "H">>
BACKUP_RETENTION_DAYS == <<"B", "A", "C", "K", "U", "P", "_", "R", "E", "T", "E", "N", "T", "I", "O", "N", "_", "D", "A", "Y", "S">>

K_logging == <<"l", "o", "g", "g", "i", "n", "g">>
K_level == <<"l", "e", "v", "e", "l">>
K_format == <<"f", "o", "r", "m", "a", "t">>
K_file == <<"f", "i", "l", "e">>

\* Values of settings.
V_daily == PyStr(<<"d", "a", "i", "l", "y">>)
V_hourly == PyStr(<<"h", "o", "u", "r", "l", "y">>)
V_weekly == PyStr(<<"w", "e", "e", "k", "l", "y">>)
V_INFO == PyStr(<<"I", "N", "F", "O">>)
V_backups == PyStr(<<".", "/", "b", "a", "c", "k", "u", "p", "s">>)
V_true == PyStr(<<"t", "r", "u", "e">>)
V_format ==
    PyStr(<<"%", "(", "a", "s", "c", "t", "i", "m", "e", ")", "s", " ", "-", " ",
            "%", "(", "n", "a", "m", "e", ")", "s", " ", "-", " ",
            "%", "(", "l", "e", "v", "e", "l", "n", "a", "m", "e", ")", "s", " ", "-", " ",
            "%", "(", "m", "e", "s", "s", "a", "g", "e", ")", "s">>)

\* str.upper()
upper(s) == [i \in DOMAIN s |-> upper_char(s[i])]

\* os.getenv(name, default): environ maps the names that are set to their
\* values.
getenv(environ, name, default) == IF name \in DOMAIN environ THEN environ[name] ELSE default

\* The three int(os.getenv(...)) of the dict display, in its order.
EnvInts(environ) ==
    <<py_int(getenv(environ, MAX_RETRIES, PyStr(<<"3">>))),
      py_int(getenv(environ, TIMEOUT, PyStr(<<"3", "0">>))),
      py_int(getenv(environ, BACKUP_RETENTION_DAYS, PyStr(<<"3", "0">>)))>>

\* self.config as the dict display of _load_env_vars builds it, given what
\* the three int() returned.
EnvConfig(environ, max_retries, timeout, retention_days) ==
    (K_leetcode :>
        PyDict((K_username :> getenv(environ, LEETCODE_USERNAME, PyNone))
               @@ (K_session_id :> getenv(environ, LEETCODE_SESSION_ID, PyNone))
               @@ (K_csrf_token :> getenv(environ, LEETCODE_CSRF_TOKEN, PyNone))))
    @@ (K_google_sheets :>
        PyDict((K_spreadsheet_id :> getenv(environ, GOOGLE_SHEETS_ID, PyNone))
               @@ (K_credentials_path :> getenv(environ, GOOGLE_CREDENTIALS_PATH, PyNone))
               @@ (K_credentials_json :> getenv(environ, GOOGLE_CREDENTIALS_JSON, PyNone))))
    @@ (K_sync :>
        PyDict((K_interval :> getenv(environ, SYNC_INTERVAL, V_daily))
               @@ (K_log_level :> getenv(environ, LOG_LEVEL, V_INFO))
               @@ (K_max_retries :> PyInt(max_retries))
               @@ (K_timeout :> PyInt(timeout))))
    @@ (K_backup :>
        PyDict((K_enabled :>
                    PyBool(lower(getenv(environ, BACKUP_ENABLED, V_true).val) = V_true.val))
               @@ (K_path :> getenv(environ, BACKUP_PATH, V_backups))
               @@ (K_retention_days :> PyInt(retention_days))))

\* _load_env_vars: self.config, or the ValueError of an int() that is
\* logged and raised again.
_load_env_vars(environ) ==
    IF \E i \in 1 .. 3 : EnvInts(environ)[i].kind = "raise"
    THEN Raise("ValueError")
    ELSE Return(EnvConfig(environ, EnvInts(environ)[1].value, EnvInts(environ)[2].value,
                          EnvInts(environ)[3].value))

\* env_key = f"{section.upper()}_{key.upper()}"
env_key(section, key) == upper(section) \o <<"_">> \o upper(key)

\* `not os.getenv(env_key)`: the variable is unset or empty.
NotInEnv(environ, name) == getenv(environ, name, PyNone) \in {PyNone, PyStr(<<>>)}

\* self.config[section] after the body of the loop of _merge_config for
\* one section of the file: `old` is the section before, {} when the
\* section was not there. A dict is merged key by key, any other value
\* takes the place of the section.
MergeSection(old, values, section, environ) ==
    IF values.type = "dict"
    THEN PyDict([key \in DOMAIN old.val
                        \cup {k \in DOMAIN values.val : NotInEnv(environ, env_key(section, k))} |->
                    IF key \in DOMAIN values.val /\ NotInEnv(environ, env_key(section, key))
                    THEN values.val[key] ELSE old.val[key]])
    ELSE values

\* self.config after _merge_config(file_config); file_config.items() is
\* an AttributeError when the file holds no object.
_merge_config(config, file_config, environ) ==
    IF file_config.type # "dict" THEN Raise("AttributeError")
    ELSE Return([section \in DOMAIN config \cup DOMAIN file_config.val |->
                    IF section \notin DOMAIN file_config.val THEN config[section]
                    ELSE MergeSection(Get(config, section, PyDict(<<>>)),
                                      file_config.val[section], section, environ)])

\* _load_config_file: open and json.load, whose exception is logged and
\* raised again, then the merge.
_load_config_file(config, file, environ) ==
    IF file.kind = "raise" THEN file ELSE _merge_config(config, file.value, environ)

\* The `defaults` of _set_defaults.
Defaults ==
    (K_sync :> ((K_interval :> V_daily) @@ (K_log_level :> V_INFO)
                @@ (K_max_retries :> PyInt(3)) @@ (K_timeout :> PyInt(30))))
    @@ (K_backup :> ((K_enabled :> PyBool(TRUE)) @@ (K_path :> V_backups)
                     @@ (K_retention_days :> PyInt(30))))
    @@ (K_logging :> ((K_level :> V_INFO) @@ (K_format :> V_format) @@ (K_file :> PyNone)))

\* self.config[section] after the inner loop of _set_defaults. A dict gets
\* the keys it lacks. For a str `key not in` is a substring test and for a
\* list a membership test, and the assignment of a missing key is a
\* TypeError; for any other value the test itself is a TypeError.
DefaultsIn(section, values) ==
    CASE section.type = "dict" ->
            Return(PyDict([key \in DOMAIN section.val \cup DOMAIN values |->
                            IF key \in DOMAIN section.val THEN section.val[key]
                            ELSE values[key]]))
      [] section.type = "str" ->
            IF \A key \in DOMAIN values : contains(section.val, key)
            THEN Return(section) ELSE Raise("TypeError")
      [] section.type = "list" ->
            IF \A key \in DOMAIN values : PyStr(key) \in Range(section.val)
            THEN Return(section) ELSE Raise("TypeError")
      [] OTHER -> Raise("TypeError")

\* self.config after _set_defaults()
_set_defaults(config) ==
    IF \E section \in DOMAIN Defaults :
            DefaultsIn(Get(config, section, PyDict(<<>>)), Defaults[section]).kind = "raise"
    THEN Raise("TypeError")
    ELSE Return([section \in DOMAIN config \cup DOMAIN Defaults |->
                    IF section \in DOMAIN Defaults
                    THEN DefaultsIn(Get(config, section, PyDict(<<>>)),
                                    Defaults[section]).value
                    ELSE config[section]])

\* `not section.get(key)` for a section that is a dict
Missing(section, key) ==
    IF Get(section.val, key, PyNone).type = "dict"
    THEN DOMAIN Get(section.val, key, PyNone).val = {}
    ELSE ~truthy(Get(section.val, key, PyNone))

\* The `errors` of _validate_config for sections that are dicts.
ValidationErrors(leetcode_config, sheets_config, sync_config) ==
    {error \in {"username", "spreadsheet_id", "credentials", "interval"} :
        CASE error = "username" -> Missing(leetcode_config, K_username)
          [] error = "spreadsheet_id" -> Missing(sheets_config, K_spreadsheet_id)
          [] error = "credentials" ->
                /\ Missing(sheets_config, K_credentials_path)
                /\ Missing(sheets_config, K_credentials_json)
          [] error = "interval" ->
                ~ /\ Get(sync_config.val, K_interval, PyNone).type = "str"
                  /\ Get(sync_config.val, K_interval, PyNone) \in {V_hourly, V_daily, V_weekly}}

\* _validate_config: None, or the ValueError with the errors; .get of a
\* section that is no dict is an AttributeError.
_validate_config(config) ==
    IF \E section \in {K_leetcode, K_google_sheets, K_sync} :
            Get(config, section, PyDict(<<>>)).type # "dict"
    THEN Raise("AttributeError")
    ELSE IF ValidationErrors(Get(config, K_leetcode, PyDict(<<>>)),
                             Get(config, K_google_sheets, PyDict(<<>>)),
                             Get(config, K_sync, PyDict(<<>>))) # {}
    THEN Raise("ValueError")
    ELSE Return(PyNone)

RECURSIVE SetIn(_, _, _)
\* The value `config` after update has walked `keys` from it and assigned
\* `value`: a missing key on the way becomes a {}; the walk into, and the
\* assignment to, a value that is no dict is a TypeError.
SetIn(config, keys, value) ==
    IF config.type # "dict" THEN Raise("TypeError")
    ELSE IF Len(keys) = 1 THEN Return(PyDict((Head(keys) :> value) @@ config.val))
    ELSE IF SetIn(Get(config.val, Head(keys), PyDict(<<>>)), Tail(keys), value).kind = "raise"
    THEN Raise("TypeError")
    ELSE Return(PyDict((Head(keys) :> SetIn(Get(config.val, Head(keys), PyDict(<<>>)),
                                             Tail(keys), value).value)
                       @@ config.val))

\* self.config after update(key, value), or its TypeError.
update(config, key, value) ==
    IF SetIn(PyDict(config), split(key, <<".">>), value).kind = "raise"
    THEN Raise("TypeError")
    ELSE Return(SetIn(PyDict(config), split(key, <<".">>), value).value.val)

\* The index of the last "/" of a path, 0 without one.
LastSlash(path) ==
    IF "/" \in Range(path)
    THEN CHOOSE i \in DOMAIN path : path[i] = "/" /\ \A j \in DOMAIN path : path[j] = "/" => j <= i
    ELSE 0

RECURSIVE rstrip_slashes(_)
rstrip_slashes(s) ==
    IF s # <<>> /\ s[Len(s)] = "/" THEN rstrip_slashes(SubSeq(s, 1, Len(s) - 1)) ELSE s

\* os.path.dirname(path): the path up to its last "/", without trailing
\* slashes unless it is made of slashes only.
dirname(path) ==
    IF rstrip_slashes(SubSeq(path, 1, LastSlash(path))) = <<>>
    THEN SubSeq(path, 1, LastSlash(path))
    ELSE rstrip_slashes(SubSeq(path, 1, LastSlash(path)))

P_config_json == PyStr(<<"c", "o", "n", "f", "i", "g", ".", "j", "s", "o", "n">>)
P_conf_settings == PyStr(<<"c", "o", "n", "f", "/", "s", ".", "j", "s", "o", "n">>)
P_settings == PyStr(<<"s", ".", "j", "s", "o", "n">>)

\* The path save_config writes to: file_path, else self.config_path, else
\* 'config.json'.
SavePath(file_path, config_path) ==
    IF truthy(file_path) THEN file_path
    ELSE IF truthy(config_path) THEN config_path
    ELSE P_config_json

\* How save_config(file_path) ends: os.makedirs('') raises
\* FileNotFoundError, makedirs or open may fail, else the configuration is
\* written and None is returned.
save_config(file_path, config_path, writable) ==
    IF dirname(SavePath(file_path, config_path).val) = <<>> THEN Raise("FileNotFoundError")
    ELSE IF ~writable THEN Raise("OSError")
    ELSE Return(PyNone)

\* The value a variable of the environment has, and the value a setting
\* of the file has.
V_env == PyStr(<<"E">>)
V_file == PyStr(<<"F">>)

\* The variables of the settings the file may hold, each unset, empty or
\* set to V_env.
EnvNames ==
    {LEETCODE_USERNAME, GOOGLE_SHEETS_ID, LOG_LEVEL, GOOGLE_SHEETS_SPREADSHEET_ID, SYNC_LOG_LEVEL}

\* The environments: the variables of EnvNames, with or without the
\* credentials path, and two that set MAX_RETRIES, to a number and to a
\* text int() does not read.
Environs ==
    UNION {[names -> {PyStr(<<>>), V_env}] \cup
           {(GOOGLE_CREDENTIALS_PATH :> V_env) @@ e : e \in [names -> {PyStr(<<>>), V_env}]} :
                names \in SUBSET EnvNames}
    \cup {(MAX_RETRIES :> PyStr(<<"5">>)) @@ (LEETCODE_USERNAME :> V_env)
            @@ (GOOGLE_SHEETS_ID :> V_env) @@ (GOOGLE_CREDENTIALS_PATH :> V_env),
          (MAX_RETRIES :> PyStr(<<"x">>)) @@ (LEETCODE_USERNAME :> V_env)}

\* The settings a configuration file may hold in sections that are
\* objects, each absent or V_file.
FileSettings ==
    {<<K_leetcode, K_username>>, <<K_google_sheets, K_spreadsheet_id>>, <<K_sync, K_log_level>>}
FileConfig(settings) ==
    PyDict([section \in {s[1] : s \in settings} |->
               PyDict([key \in {s[2] : s \in {t \in settings : t[1] = section}} |-> V_file])])

\* What json.load gives for the configuration file: an object of sections
\* that are objects; an object with a section that is no object, with a
\* section _load_env_vars does not build, or with the credentials and an
\* interval; an array.
FileConfigs ==
    {FileConfig(settings) : settings \in SUBSET FileSettings}
    \cup {PyDict((K_sync :> V_file)),
          PyDict((K_leetcode :> V_file)),
          PyDict((K_backup :> PyNone)),
          PyDict((K_logging :> PyDict((K_level :> V_file)))),
          PyDict((K_google_sheets :> PyDict((K_credentials_json :> V_file)
                                            @@ (K_spreadsheet_id :> V_file)))
                 @@ (K_sync :> PyDict((K_interval :> V_file)))),
          PyList(<<>>)}

\* The configuration file as _load_config meets it: no config_path or no
\* file there, a file open or json.load fails on, or a file that loads.
NoFile == [kind |-> "none"]
Files ==
    {NoFile, Raise("OSError"), Raise("JSONDecodeError")}
    \cup {Return(file_config) : file_config \in FileConfigs}

\* The number of calls of update and save_config made on a ConfigManager.
MaxConfigCalls == 2

\* The keys update is called with, and the paths save_config is called
\* with.
UpdateKeys ==
    {<<"s", "y", "n", "c">>,
     K_leetcode \o <<".">> \o K_username,
     K_leetcode \o <<".">> \o K_username \o <<".">> \o <<"x">>,
     <<"c", "a", "c", "h", "e", ".", "t", "t", "l">>}
SavePaths == {PyNone, P_config_json, P_conf_settings}

InitConfig ==
    /\ problems = <<>>
    /\ topic_mapping = <<>>
    /\ today = ToOrdinal(2025, 1, 2)
    /\ result = NoResult
    /\ pc = "idle"
    /\ \E environ \in Environs, file \in Files :
       \E config_path \in (IF file = NoFile THEN {PyNone, P_settings}
                           ELSE {P_settings, P_conf_settings}) :
        frame = [environ |-> environ, config_path |-> config_path, file |-> file,
                 config |-> <<>>, n |-> 0]
    /\ sheets = NoSheets
    /\ manager = <<>>
    /\ calls = <<>>

\* A step of _load_config ends with `outcome`: self.config is what it
\* returned and _load_config goes on, or the exception is logged and raised
\* again, out of the constructor.
LoadStep(outcome, next) ==
    /\ IF outcome.kind = "raise"
       THEN /\ result' = outcome
            /\ pc' = "raised"
            /\ UNCHANGED frame
       ELSE /\ frame' = [frame EXCEPT !.config = outcome.value]
            /\ pc' = next
            /\ UNCHANGED result
    /\ UNCHANGED <<problems, topic_mapping, today, sheets, manager, calls>>

\* ConfigManager(config_path, env_file), up to self._load_env_vars()
LoadEnvVars ==
    /\ pc = "idle"
    /\ LoadStep(_load_env_vars(frame.environ), "env_loaded")

\* _load_config: self._load_config_file() when config_path names a file
\* that exists.
LoadConfigFile ==
    /\ pc = "env_loaded"
    /\ IF frame.file = NoFile
       THEN LoadStep(Return(frame.config), "unmerged")
       ELSE LoadStep(_load_config_file(frame.config, frame.file, frame.environ), "merged")

\* _load_config: self._set_defaults()
SetDefaults ==
    /\ pc \in {"merged", "unmerged"}
    /\ LoadStep(_set_defaults(frame.config), "defaults_set")

\* _load_config: self._validate_config(), after which the constructor
\* returns.
ValidateConfig ==
    /\ pc = "defaults_set"
    /\ IF _validate_config(frame.config).kind = "raise"
       THEN LoadStep(_validate_config(frame.config), "raised")
       ELSE LoadStep(Return(frame.config), "constructed")

\* update(key, value) on the ConfigManager
UpdateConfig ==
    /\ pc = "constructed"
    /\ frame.n < MaxConfigCalls
    /\ \E key \in UpdateKeys, value \in {PyStr(<<"U">>), PyDict(<<>>)} :
        /\ result' = IF update(frame.config, key, value).kind = "raise"
                     THEN Raise("TypeError") ELSE Return(PyNone)
        /\ frame' = [frame EXCEPT
                        !.config = IF update(@, key, value).kind = "raise" THEN @
                                   ELSE update(@, key, value).value,
                        !.n = @ + 1]
    /\ UNCHANGED <<problems, topic_mapping, today, pc, sheets, manager, calls>>

\* save_config(file_path) on the ConfigManager
SaveConfig ==
    /\ pc = "constructed"
    /\ frame.n < MaxConfigCalls
    /\ \E file_path \in SavePaths, writable \in BOOLEAN :
        /\ result' = save_config(file_path, frame.config_path, writable)
        /\ calls' = IF save_config(file_path, frame.config_path, writable).kind = "raise"
                    THEN calls
                    ELSE Append(calls, Call("json.dump",
                                            <<SavePath(file_path, frame.config_path),
                                              frame.config>>))
    /\ frame' = [frame EXCEPT !.n = @ + 1]
    /\ UNCHANGED <<problems, topic_mapping, today, pc, sheets, manager>>

NextConfig ==
    \/ LoadEnvVars
    \/ LoadConfigFile
    \/ SetDefaults
    \/ ValidateConfig
    \/ UpdateConfig
    \/ SaveConfig

SpecConfig == InitConfig /\ [][NextConfig]_vars

\* ---------------------------------------------------------------------
\* Claims about the configuration, checked under SpecConfig
\* ---------------------------------------------------------------------

\* The settings the claim names, with the variable each is read from.
EnvSettings ==
    {<<K_google_sheets, K_spreadsheet_id, GOOGLE_SHEETS_ID>>,
     <<K_sync, K_log_level, LOG_LEVEL>>,
     <<K_leetcode, K_username, LEETCODE_USERNAME>>}

\* The variable `name` supplies a value.
Supplied(name) == name \in DOMAIN frame.environ /\ frame.environ[name] # PyStr(<<>>)

\* The setting `key` of `section` is what _load_env_vars made it.
AsLoaded(section, key) ==
    /\ frame.config[section].type = "dict"
    /\ key \in DOMAIN frame.config[section].val
    /\ frame.config[section].val[key] = _load_env_vars(frame.environ).value[section].val[key]

\* C30: after the configuration file is merged, a setting whose
\* environment variable is set to a value has that value, and a setting
\* the file has replaced is one whose variable is not set to a value.
ClaimC30 ==
    pc = "merged" =>
        \A s \in EnvSettings :
            /\ Supplied(s[3]) =>
                /\ AsLoaded(s[1], s[2])
                /\ frame.config[s[1]].val[s[2]] = frame.environ[s[3]]
            /\ ~AsLoaded(s[1], s[2]) => ~Supplied(s[3])
=============================================================================
